---- MODULE Spec2Model ----
(***************************************************************************)
(* Lead Discovery Prioritization Engine: the discovery ledger, the         *)
(* response cache, the prioritization pipeline (backend/icp_manager.py),   *)
(* the query rotation planner (backend/query_manager.py) and the smart     *)
(* discovery endpoint that drives them (backend/main.py).                  *)
(*                                                                         *)
(* Text is a sequence of one-character strings, so that lowercasing,       *)
(* trimming, replacement and substring tests are computed as Python        *)
(* computes them.  Time is a count of hours since the start of day 0.      *)
(***************************************************************************)
EXTENDS Integers, Sequences, FiniteSets, TLC

(***************************************************************************)
(* Python str operations                                                   *)
(***************************************************************************)
UpperMap ==
    ("A" :> "a") @@ ("B" :> "b") @@ ("C" :> "c") @@ ("D" :> "d") @@ ("E" :> "e") @@
    ("F" :> "f") @@ ("G" :> "g") @@ ("H" :> "h") @@ ("I" :> "i") @@ ("J" :> "j") @@
    ("K" :> "k") @@ ("L" :> "l") @@ ("M" :> "m") @@ ("N" :> "n") @@ ("O" :> "o") @@
    ("P" :> "p") @@ ("Q" :> "q") @@ ("R" :> "r") @@ ("S" :> "s") @@ ("T" :> "t") @@
    ("U" :> "u") @@ ("V" :> "v") @@ ("W" :> "w") @@ ("X" :> "x") @@ ("Y" :> "y") @@
    ("Z" :> "z")

Whitespace == {" "}

DigitChars == {"0", "1", "2", "3", "4", "5", "6", "7", "8", "9"}

\* str.lower()
lower(s) == [i \in 1..Len(s) |-> IF s[i] \in DOMAIN UpperMap THEN UpperMap[s[i]] ELSE s[i]]

\* str.lstrip(chars) / str.rstrip(chars) / str.strip()
RECURSIVE lstrip(_, _)
lstrip(s, chars) ==
    IF s # << >> /\ Head(s) \in chars THEN lstrip(Tail(s), chars) ELSE s

RECURSIVE rstrip(_, _)
rstrip(s, chars) ==
    IF s # << >> /\ s[Len(s)] \in chars THEN rstrip(SubSeq(s, 1, Len(s) - 1), chars) ELSE s

strip(s) == rstrip(lstrip(s, Whitespace), Whitespace)

\* str.replace(old, new): every non-overlapping occurrence, left to right
RECURSIVE replace(_, _, _)
replace(s, old, new) ==
    IF Len(s) < Len(old) THEN s
    ELSE IF SubSeq(s, 1, Len(old)) = old
         THEN new \o replace(SubSeq(s, Len(old) + 1, Len(s)), old, new)
         ELSE <<Head(s)>> \o replace(Tail(s), old, new)

\* sub in s
contains(s, sub) ==
    \E i \in 1..(Len(s) - Len(sub) + 1) : SubSeq(s, i, i + Len(sub) - 1) = sub

\* Python truthiness of a str
truthy(s) == s # << >>

\* a slice that keeps the whole list
take_all(seq, n) == seq

\* seq[:n], n >= 0
take(seq, n) ==
    SubSeq(seq, 1, IF n < Len(seq) THEN n ELSE Len(seq))

\* seq[-n:], n > 0
last_n(seq, n) ==
    SubSeq(seq, IF Len(seq) - n + 1 > 1 THEN Len(seq) - n + 1 ELSE 1, Len(seq))

(***************************************************************************)
(* SmartLeadDiscoveryManager: the three normalizers                        *)
(***************************************************************************)
LegalSuffixes ==
    << <<"i","n","c">>, <<"l","l","c">>, <<"l","t","d">>, <<"c","o","r","p">>, <<"c","o","r","p","o","r","a","t","i","o","n">>, <<"c","o","m","p","a","n","y">>, <<"c","o">>,
       <<"i","n","c",".">>, <<"l","l","c",".">>, <<"l","t","d",".">> >>

RECURSIVE strip_suffixes(_, _)
strip_suffixes(name, i) ==
    IF i > Len(LegalSuffixes) THEN name
    ELSE strip_suffixes(
            replace(replace(name, <<" ">> \o LegalSuffixes[i], << >>),
                    <<".">> \o LegalSuffixes[i], << >>),
            i + 1)

normalize_company_name(name) == strip(strip_suffixes(strip(lower(name)), 1))

normalize_website(website) ==
    replace(
        replace(
            replace(rstrip(strip(lower(website)), {"/"}), <<"h","t","t","p","s",":","/","/">>, << >>),
            <<"h","t","t","p",":","/","/">>, << >>),
        <<"w","w","w",".">>, << >>)

normalize_phone(phone) ==
    LET digits == SelectSeq(phone, LAMBDA c : c \in DigitChars)
    IN  IF Len(digits) >= 10 THEN SubSeq(digits, Len(digits) - 9, Len(digits)) ELSE digits

\* DiscoveryStateManager stores and looks up company_name.lower().strip()
ledger_key(company_name) == strip(lower(company_name))

(***************************************************************************)
(* ICPCriteria.__post_init__: the default fit profile.  The dicts are      *)
(* sequences of <<label, weight>> in insertion order, which is the order   *)
(* calculate_icp_score iterates them in.                                   *)
(***************************************************************************)
preferred_industries ==
    << <<<<"t","o","u","r","i","s","m">>, 25>>, <<<<"h","o","s","p","i","t","a","l","i","t","y">>, 25>>, <<<<"h","e","a","l","t","h","c","a","r","e">>, 20>>,
       <<<<"r","e","t","a","i","l">>, 15>>, <<<<"f","i","n","a","n","c","e">>, 20>>, <<<<"r","e","a","l","_","e","s","t","a","t","e">>, 15>>,
       <<<<"p","r","o","f","e","s","s","i","o","n","a","l","_","s","e","r","v","i","c","e","s">>, 15>>, <<<<"e","d","u","c","a","t","i","o","n">>, 12>>,
       <<<<"g","o","v","e","r","n","m","e","n","t">>, 10>>, <<<<"c","o","n","s","t","r","u","c","t","i","o","n">>, 10>>, <<<<"a","g","r","i","c","u","l","t","u","r","e">>, 8>> >>

preferred_locations ==
    << <<<<"h","o","n","o","l","u","l","u">>, 15>>, <<<<"o","a","h","u">>, 15>>, <<<<"m","a","u","i">>, 12>>, <<<<"k","a","u","a","i">>, 12>>,
       <<<<"b","i","g","_","i","s","l","a","n","d">>, 12>>, <<<<"h","a","w","a","i","i">>, 10>> >>

preferred_company_sizes ==
    [c \in {"10-50", "51-100", "101-250", "251-500", "501-1000", "1000+", "1-10"} |->
        CASE c = "10-50" -> 20
          [] c = "51-100" -> 25
          [] c = "101-250" -> 25
          [] c = "251-500" -> 20
          [] c = "501-1000" -> 10
          [] c = "1000+" -> 5
          [] c = "1-10" -> 5]

key_pain_points ==
    << <<"m","a","n","u","a","l"," ","p","r","o","c","e","s","s","e","s">>, <<"d","a","t","a"," ","a","n","a","l","y","s","i","s">>, <<"c","u","s","t","o","m","e","r"," ","e","x","p","e","r","i","e","n","c","e">>, <<"a","u","t","o","m","a","t","i","o","n">>,
       <<"e","f","f","i","c","i","e","n","c","y">>, <<"d","i","g","i","t","a","l"," ","t","r","a","n","s","f","o","r","m","a","t","i","o","n">>, <<"c","o","m","p","e","t","i","t","i","v","e"," ","a","d","v","a","n","t","a","g","e">>,
       <<"o","p","e","r","a","t","i","o","n","a","l"," ","c","o","s","t","s">>, <<"s","c","a","l","i","n","g"," ","c","h","a","l","l","e","n","g","e","s">>, <<"c","u","s","t","o","m","e","r"," ","i","n","s","i","g","h","t","s">>,
       <<"p","e","r","s","o","n","a","l","i","z","a","t","i","o","n">>, <<"p","r","e","d","i","c","t","i","v","e"," ","a","n","a","l","y","t","i","c","s">> >>

tech_indicators ==
    << <<"w","e","b","s","i","t","e">>, <<"o","n","l","i","n","e"," ","b","o","o","k","i","n","g">>, <<"m","o","b","i","l","e"," ","a","p","p">>, <<"e","c","o","m","m","e","r","c","e">>, <<"c","r","m">>,
       <<"d","i","g","i","t","a","l"," ","m","a","r","k","e","t","i","n","g">>, <<"s","o","c","i","a","l"," ","m","e","d","i","a">>, <<"c","l","o","u","d">>, <<"a","p","i">>, <<"i","n","t","e","g","r","a","t","i","o","n">> >>

min_score_threshold == 70

(***************************************************************************)
(* SmartLeadDiscoveryManager: the fit scorer                               *)
(***************************************************************************)
categorize_company_size(employee_count) ==
    IF employee_count >= 1000 THEN "1000+"
    ELSE IF employee_count >= 501 THEN "501-1000"
    ELSE IF employee_count >= 251 THEN "251-500"
    ELSE IF employee_count >= 101 THEN "101-250"
    ELSE IF employee_count >= 51 THEN "51-100"
    ELSE IF employee_count >= 10 THEN "10-50"
    ELSE "1-10"

\* for label, weight in prefs.items(): if label in text: score += weight; break
first_match_weight(prefs, text) ==
    LET hits == {i \in 1..Len(prefs) : contains(text, prefs[i][1])}
    IN  IF hits = {} THEN 0
        ELSE prefs[CHOOSE i \in hits : \A j \in hits : i <= j][2]

Min(a, b) == IF a <= b THEN a ELSE b

Max(a, b) == IF a >= b THEN a ELSE b

\* ICPCriteria with the default criteria of __post_init__
default_icp ==
    [preferred_industries |-> preferred_industries,
     preferred_locations |-> preferred_locations,
     preferred_company_sizes |-> preferred_company_sizes,
     key_pain_points |-> key_pain_points,
     tech_indicators |-> tech_indicators]

\* dict.get(key, 0)
get_or_zero(dict, key) == IF key \in DOMAIN dict THEN dict[key] ELSE 0

\* the score of calculate_icp_score before the final min
additive_score(icp, lead) ==
    LET industry == lower(lead.industry)
        location == lower(lead.location)
        size_category == categorize_company_size(lead.employee_count)
        description == lower(lead.description \o <<" ">> \o lead.notes)
        pain_point_matches ==
            Cardinality({i \in 1..Len(icp.key_pain_points) :
                            contains(description, icp.key_pain_points[i])})
        tech_matches ==
            Cardinality({i \in 1..Len(icp.tech_indicators) :
                            \/ contains(description, icp.tech_indicators[i])
                            \/ contains(lower(lead.website), icp.tech_indicators[i])})
    IN  50
        + first_match_weight(icp.preferred_industries, industry)
        + first_match_weight(icp.preferred_locations, location)
        + get_or_zero(icp.preferred_company_sizes, size_category)
        + Min(pain_point_matches * 3, 15)
        + Min(tech_matches * 2, 10)
        + (IF truthy(lead.website) THEN 5 ELSE 0)
        + (IF truthy(lead.email) \/ truthy(lead.phone) THEN 5 ELSE 0)

\* calculate_icp_score returning the sum as it is
calculate_icp_score_without_cap(icp, lead) == additive_score(icp, lead)

\* calculate_icp_score of a manager whose criteria are icp
calculate_icp_score_with(icp, lead) == Min(additive_score(icp, lead), 100)

\* calculate_icp_score of the manager the service builds (default criteria)
calculate_icp_score(lead) == calculate_icp_score_with(default_icp, lead)

(***************************************************************************)
(* Candidate records the scraping layer can hand over.  A field the        *)
(* scraper did not supply is the empty text, which is what                 *)
(* lead.get(field, "") yields.                                             *)
(***************************************************************************)
Lead(name, website, phone, industry, location, employees, description) ==
    [company_name |-> name, website |-> website, phone |-> phone, email |-> << >>,
     industry |-> industry, location |-> location, employee_count |-> employees,
     description |-> description, notes |-> << >>]

Pool ==
    << Lead(<<"A","c","m","e"," ","I","n","c">>, <<"W","W","W",".","c","o","v","e",".","i","o","/">>, << >>, << >>, << >>, 0, << >>),
       Lead(<<"A","c","m","e"," ","L","L","C">>, <<"h","t","t","p","s",":","/","/","w","w","w",".","a","c","m","e",".","c","o","m","/">>, <<"+","1"," ","(","8","0","8",")"," ","5","5","5","-","0","1","0","0">>, <<"T","o","u","r","i","s","m">>,
            <<"H","o","n","o","l","u","l","u">>, 80, << >>),
       Lead(<<" ","A","C","M","E"," ","I","N","C">>, << >>, << >>, <<"T","o","u","r","i","s","m">>, << >>, 0, <<"n","e","e","d","s"," ","a","u","t","o","m","a","t","i","o","n">>),
       Lead(<<"B","o","l","t">>, <<"h","t","t","p",":","/","/","a","c","m","e",".","c","o","m">>, << >>, <<"H","e","a","l","t","h","c","a","r","e">>, << >>, 0, << >>),
       Lead(<<"C","o","v","e">>, <<"c","o","v","e",".","i","o">>, <<"8","0","8","-","5","5","5","-","0","1","0","0">>, <<"r","e","t","a","i","l">>, << >>, 0, << >>),
       Lead(<< >>, << >>, << >>, <<"T","o","u","r","i","s","m">>, <<"M","a","u","i">>, 0, << >>) >>

LeadIds == 1..Len(Pool)

\* The normalized fields and the score of each candidate of the pool.
name_of ==
    [id \in LeadIds |-> normalize_company_name(Pool[id].company_name)]

website_of ==
    [id \in LeadIds |-> normalize_website(Pool[id].website)]

phone_of ==
    [id \in LeadIds |-> normalize_phone(Pool[id].phone)]

key_of ==
    [id \in LeadIds |-> ledger_key(Pool[id].company_name)]

icp_score ==
    [id \in LeadIds |-> calculate_icp_score(Pool[id])]

(***************************************************************************)
(* Bounds of the model                                                     *)
(***************************************************************************)
\* longest batch the scraping layer hands over
MaxBatch == 2

\* largest configured daily_limit (0 is included)
MaxDailyLimit == 2

\* last calendar day the clock reaches
MaxDay == 1

\* longest time to live a cache entry is given, in hours
MaxTtlHours == 2

\* last hour the clock of the response cache reaches
MaxCacheHour == 3

\* number of mark_source_results and should_use_source calls followed
MaxSourceCalls == 3

\* last half day the clock of the source exhaustion reaches
MaxHalfDays == 4

\* number of get_next_queries calls followed
MaxQueryCalls == 2

\* number of earlier runs that wrote the saved rotation document
SavedRuns == 24

\* age of the saved rotation document when the clock starts, in days
SavedAgeDays == 6

\* last day the clock of the query rotation reaches
MaxRotationDay == 8

\* number of discovery requests followed
MaxRequests == 2

\* number of parts a text handed to a normalizer is made of
MaxParts == 4

\* number of loop iterations of filter_and_prioritize_leads followed
MaxProcessed == 3

\* number of increment_daily_leads and increment_api_calls calls followed
MaxCounterCalls == 1

\* number of counter increments followed over the month
MaxRetentionCalls == 3

\* the batches: every sequence of at most MaxBatch candidates of the pool
RECURSIVE SeqsUpTo(_, _)
SeqsUpTo(S, n) ==
    IF n = 0 THEN {<< >>}
    ELSE LET shorter == SeqsUpTo(S, n - 1)
         IN  shorter \cup {Append(s, e) : s \in shorter, e \in S}

Batches == SeqsUpTo(LeadIds, MaxBatch)

\* stored records handed over as existing_leads in a direct call
ExistingChoices == {{}, {1}, {2}}

(***************************************************************************)
(* State                                                                   *)
(***************************************************************************)
VARIABLES
    now,          \* datetime.now(), in hours since the start of day 0
    daily_limit,  \* SmartLeadDiscoveryManager.daily_limit
    ledger,       \* DiscoveryStateManager.state
    state_file,   \* discovery_state.json
    call,         \* the latest filter_and_prioritize_leads call and what it returned
    default_ttl,  \* APIResponseCache.default_ttl, in hours
    cache,        \* APIResponseCache.cache
    stored,       \* per cache key, what the latest set stored (never purged)
    got,          \* the latest APIResponseCache.get and what it returned
    rotation,     \* QueryRotationManager.state
    rotation_file, \* query_rotation_state.json
    used,         \* the latest should_use_source call and what it returned
    calls,        \* number of calls made so far, where the model bounds them
    runs,         \* number of discovery runs of the first day
    asked,        \* the latest get_next_queries call and what it returned
    emitted,      \* every <<lowercased query, time>> get_next_queries ever returned
    selections,   \* per industry, the keywords the rotation step used for it, in order
    emissions,    \* every query get_next_queries ever returned with the time of the
                  \* call, in the order of the returned lists
    recorded,     \* per source, the latest mark_source_results: its arguments, the
                  \* levels before it, the level it stored, and when
    scored,       \* the latest calculate_icp_score call on its own
    checked,      \* the latest should_check_source call, and every mark_source_checked
    normalized,   \* the latest normalizer call on its own, and the result normalized again
    reset,        \* the latest reset_daily_stats call and the ledger it found
    up,           \* the managers the running process has constructed
    loaded,       \* the latest construction of a manager and how it ended
    pass,         \* the filter_and_prioritize_leads loop in progress, if any
    processed,    \* <<candidate, outcome>> of every loop iteration that completed
    db_leads,     \* the rows of the leads table
    cut_off,      \* the candidates a request kept and the quota cut from its result
    request       \* per discovery request, where it stands and what it did

pipeline_vars == <<daily_limit, ledger, state_file, call>>

cache_vars == <<default_ttl, cache, stored, got>>

rotation_vars == <<rotation, rotation_file, used, calls, runs, asked, emitted, emissions, selections, recorded>>

endpoint_vars == <<db_leads, cut_off, request>>

unit_vars == <<scored, normalized, reset, checked>>

process_vars == <<up, loaded, pass, processed>>

vars == <<now, pipeline_vars, cache_vars, rotation_vars, endpoint_vars, unit_vars, process_vars>>

HoursPerDay == 24

\* datetime.now().strftime("%Y-%m-%d"): the calendar day, as a day number
Today == now \div HoursPerDay

(***************************************************************************)
(* DiscoveryStateManager                                                   *)
(***************************************************************************)
\* _load_state when discovery_state.json does not exist
fresh_ledger ==
    [seen_companies |-> {}, filtered_companies |-> {},
     sources_checked |-> << >>, daily_stats |-> << >>]

\* a mark that records nothing
mark_company_seen_nothing(state, company_name) ==
    state

mark_company_seen(state, company_name) ==
    [state EXCEPT !.seen_companies = @ \cup {ledger_key(company_name)}]

mark_company_filtered(state, company_name) ==
    [state EXCEPT !.filtered_companies = @ \cup {ledger_key(company_name)}]

\* a lookup that never finds the company
is_company_seen_never(state, company_name) ==
    FALSE

is_company_seen(state, company_name) ==
    ledger_key(company_name) \in state.seen_companies

\* a lookup that never finds the company
is_company_filtered_never(state, company_name) ==
    FALSE

is_company_filtered(state, company_name) ==
    ledger_key(company_name) \in state.filtered_companies

\* mark_source_checked: the entry of the source is created when missing, the
\* query is appended unless already listed, last_check is set
mark_source_checked(state, source, query, t) ==
    LET entry == IF source \in DOMAIN state.sources_checked
                 THEN state.sources_checked[source]
                 ELSE [last_check |-> t, queries_executed |-> << >>]
        executed == IF \E i \in 1..Len(entry.queries_executed) :
                             entry.queries_executed[i] = query
                    THEN entry.queries_executed
                    ELSE Append(entry.queries_executed, query)
    IN  [state EXCEPT !.sources_checked =
            (source :> [last_check |-> t, queries_executed |-> executed]) @@ @]

\* should_check_source with the threshold itself counted as elapsed
should_check_source_at_threshold(state, source, query, hours_threshold, t) ==
    [answer |->
        \/ source \notin DOMAIN state.sources_checked
        \/ ~\E i \in 1..Len(state.sources_checked[source].queries_executed) :
                state.sources_checked[source].queries_executed[i] = query
        \/ t - state.sources_checked[source].last_check >= hours_threshold,
     state |-> state]

\* should_check_source: the answer and the ledger it leaves
should_check_source(state, source, query, hours_threshold, t) ==
    IF source \notin DOMAIN state.sources_checked
    THEN [answer |-> TRUE, state |-> state]
    ELSE LET source_data == state.sources_checked[source]
         IN  IF ~\E i \in 1..Len(source_data.queries_executed) :
                      source_data.queries_executed[i] = query
             THEN [answer |-> TRUE, state |-> state]
             ELSE [answer |-> t - source_data.last_check > hours_threshold,
                   state |-> state]

get_daily_stats(state, date) ==
    IF date \in DOMAIN state.daily_stats
    THEN state.daily_stats[date]
    ELSE [leads_added |-> 0, api_calls |-> 0]

increment_daily_leads(state, today, count) ==
    LET stats == get_daily_stats(state, today)
    IN  [state EXCEPT !.daily_stats =
            (today :> [stats EXCEPT !.leads_added = @ + count]) @@ @]

increment_api_calls(state, today, count) ==
    LET stats == get_daily_stats(state, today)
    IN  [state EXCEPT !.daily_stats =
            (today :> [stats EXCEPT !.api_calls = @ + count]) @@ @]

RetentionDays == 30

\* a reset that drops every entry, today's included
reset_daily_stats_all(state, today) ==
    [state EXCEPT !.daily_stats = << >>]

\* reset_daily_stats: keeps the entries with date >= cutoff_date, the date
\* RetentionDays days before today
reset_daily_stats(state, today) ==
    LET cutoff_date == today - RetentionDays
        kept == {k \in DOMAIN state.daily_stats : k >= cutoff_date}
    IN  [state EXCEPT !.daily_stats = [k \in kept |-> state.daily_stats[k]]]

(***************************************************************************)
(* The state files.  A file is missing, holds text json.load rejects, or   *)
(* holds a document.  In memory the two company collections are sets (a    *)
(* list read from the file is turned into a set by the accessor that first *)
(* touches it); in the document they are lists.                            *)
(***************************************************************************)
Missing == [kind |-> "missing"]

Corrupt == [kind |-> "corrupt"]

Document(content) == [kind |-> "document", content |-> content]

\* list(a_set): the members in some order
RECURSIVE list_of(_)
list_of(S) ==
    IF S = {} THEN << >>
    ELSE LET x == CHOOSE x \in S : TRUE
         IN  <<x>> \o list_of(S \ {x})

\* set(a_list)
set_of(seq) == {seq[i] : i \in 1..Len(seq)}

\* a _save_state that leaves the filtered companies out of the document
save_state_without_filtered(state) ==
    Document([seen_companies |-> list_of(state.seen_companies),
              filtered_companies |-> << >>,
              sources_checked |-> state.sources_checked,
              daily_stats |-> state.daily_stats])

\* DiscoveryStateManager._save_state: the file it leaves
save_state(state) ==
    Document([seen_companies |-> list_of(state.seen_companies),
              filtered_companies |-> list_of(state.filtered_companies),
              sources_checked |-> state.sources_checked,
              daily_stats |-> state.daily_stats])

\* DiscoveryStateManager._load_state: only FileNotFoundError is caught, the
\* JSONDecodeError of json.load leaves the constructor
load_state(file) ==
    IF file.kind = "missing" THEN [raised |-> FALSE, state |-> fresh_ledger]
    ELSE IF file.kind = "corrupt" THEN [raised |-> TRUE, state |-> fresh_ledger]
    ELSE [raised |-> FALSE,
          state |-> [seen_companies |-> set_of(file.content.seen_companies),
                     filtered_companies |-> set_of(file.content.filtered_companies),
                     sources_checked |-> file.content.sources_checked,
                     daily_stats |-> file.content.daily_stats]]

(***************************************************************************)
(* SmartLeadDiscoveryManager: quota and the prioritization pipeline        *)
(***************************************************************************)
\* a capacity that forgets what was added today
capacity_without_count(state, today, limit) ==
    Max(0, limit)

get_remaining_daily_capacity(state, today, limit) ==
    Max(0, limit - get_daily_stats(state, today).leads_added)

\* the deduplication sets with the websites of the stored records left out
existing_sets_without_websites(existing_leads) ==
    [names |-> {name_of[e] : e \in existing_leads},
     websites |-> {},
     phones |-> {phone_of[e] : e \in {x \in existing_leads : truthy(Pool[x].phone)}}]

\* existing_names / existing_websites / existing_phones built from existing_leads
existing_sets(existing_leads) ==
    [names |-> {name_of[e] : e \in existing_leads},
     websites |-> {website_of[e] : e \in {x \in existing_leads : truthy(Pool[x].website)}},
     phones |-> {phone_of[e] : e \in {x \in existing_leads : truthy(Pool[x].phone)}}]

\* the loop iteration with the website and phone sets left as they were built
\* from existing_leads
process_lead_without_batch_sets(acc, id) ==
    LET lead == Pool[id]
        has_website == truthy(lead.website)
        has_phone == truthy(lead.phone)
        skip(why) == [acc EXCEPT !.outcomes = Append(@, why)]
    IN  IF name_of[id] \in acc.names
          THEN skip("existing_name")
        ELSE IF has_website /\ website_of[id] \in acc.websites
          THEN skip("existing_website")
        ELSE IF has_phone /\ phone_of[id] \in acc.phones
          THEN skip("existing_phone")
        ELSE IF is_company_seen(acc.state, lead.company_name)
          THEN skip("seen")
        ELSE IF is_company_filtered(acc.state, lead.company_name)
          THEN skip("filtered")
        ELSE IF icp_score[id] < min_score_threshold
          THEN [acc EXCEPT !.state = mark_company_filtered(@, lead.company_name),
                           !.outcomes = Append(@, "below_threshold")]
        ELSE [acc EXCEPT !.state = mark_company_seen(@, lead.company_name),
                         !.filtered_leads = Append(@, id),
                         !.names = @ \cup {name_of[id]},
                         !.outcomes = Append(@, "kept")]

\* the loop iteration with the website and phone of a candidate entering the
\* sets only when the candidate is kept
process_lead_adding_when_kept(acc, id) ==
    LET r == process_lead_without_batch_sets(acc, id)
        lead == Pool[id]
    IN  IF r.outcomes[Len(r.outcomes)] # "kept"
        THEN r
        ELSE [r EXCEPT
                !.websites = IF truthy(lead.website) THEN @ \cup {website_of[id]} ELSE @,
                !.phones = IF truthy(lead.phone) THEN @ \cup {phone_of[id]} ELSE @]

\* the loop iteration with a skipped duplicate recorded as seen
process_lead_marking_duplicates(acc, id) ==
    LET r == process_lead_without_batch_sets(acc, id)
    IN  IF r.outcomes[Len(r.outcomes)] \in {"below_threshold", "kept"}
        THEN r
        ELSE [r EXCEPT !.state = mark_company_seen(@, Pool[id].company_name)]

\* One iteration of the loop over discovered_leads.  acc carries the ledger,
\* the three deduplication sets, the kept leads, and (for the properties) the
\* outcome of each candidate in input order.
process_lead(acc, id) ==
    LET lead == Pool[id]
        has_website == truthy(lead.website)
        has_phone == truthy(lead.phone)
        websites1 == IF has_website THEN acc.websites \cup {website_of[id]} ELSE acc.websites
        phones1 == IF has_phone THEN acc.phones \cup {phone_of[id]} ELSE acc.phones
        skip(why, websites, phones) ==
            [acc EXCEPT !.websites = websites, !.phones = phones,
                        !.outcomes = Append(@, why)]
    IN  IF name_of[id] \in acc.names
          THEN skip("existing_name", acc.websites, acc.phones)
        ELSE IF has_website /\ website_of[id] \in acc.websites
          THEN skip("existing_website", acc.websites, acc.phones)
        ELSE IF has_phone /\ phone_of[id] \in acc.phones
          THEN skip("existing_phone", websites1, acc.phones)
        ELSE IF is_company_seen(acc.state, lead.company_name)
          THEN skip("seen", websites1, phones1)
        ELSE IF is_company_filtered(acc.state, lead.company_name)
          THEN skip("filtered", websites1, phones1)
        ELSE IF icp_score[id] < min_score_threshold
          THEN [acc EXCEPT !.websites = websites1, !.phones = phones1,
                           !.state = mark_company_filtered(@, lead.company_name),
                           !.outcomes = Append(@, "below_threshold")]
        ELSE [acc EXCEPT !.websites = websites1, !.phones = phones1,
                         !.state = mark_company_seen(@, lead.company_name),
                         !.filtered_leads = Append(@, id),
                         !.names = @ \cup {name_of[id]},
                         !.outcomes = Append(@, "kept")]

RECURSIVE process_leads(_, _)
process_leads(acc, leads) ==
    IF leads = << >> THEN acc
    ELSE process_leads(process_lead(acc, Head(leads)), Tail(leads))

\* a sort by score that puts a candidate before the earlier ones of its score
RECURSIVE sort_by_score_ties_reversed(_)
sort_by_score_ties_reversed(leads) ==
    IF leads = << >> THEN << >>
    ELSE LET rest == sort_by_score_ties_reversed(SubSeq(leads, 1, Len(leads) - 1))
             last == leads[Len(leads)]
             keep == {i \in 1..Len(rest) : icp_score[rest[i]] > icp_score[last]}
             k == Cardinality(keep)
         IN  SubSeq(rest, 1, k) \o <<last>> \o SubSeq(rest, k + 1, Len(rest))

\* list.sort(key=icp_score, reverse=True): stable, highest score first
RECURSIVE sort_by_score(_)
sort_by_score(leads) ==
    IF leads = << >> THEN << >>
    ELSE LET rest == sort_by_score(SubSeq(leads, 1, Len(leads) - 1))
             last == leads[Len(leads)]
             keep == {i \in 1..Len(rest) : icp_score[rest[i]] >= icp_score[last]}
             k == Cardinality(keep)
         IN  SubSeq(rest, 1, k) \o <<last>> \o SubSeq(rest, k + 1, Len(rest))

\* filter_and_prioritize_leads: the ledger it leaves and the list it returns
filter_and_prioritize_leads(state, discovered_leads, existing_leads, today, limit) ==
    LET sets == existing_sets(existing_leads)
        acc == process_leads(
                   [state |-> state, names |-> sets.names, websites |-> sets.websites,
                    phones |-> sets.phones, filtered_leads |-> << >>, outcomes |-> << >>],
                   discovered_leads)
        sorted == sort_by_score(acc.filtered_leads)
        remaining_capacity == get_remaining_daily_capacity(acc.state, today, limit)
    IN  [state |-> acc.state,
         leads |-> take(sorted, remaining_capacity),
         kept |-> acc.filtered_leads,
         outcomes |-> acc.outcomes]

(***************************************************************************)
(* APIResponseCache.  A key stands for _generate_key(service, params): the *)
(* service name and the digest of the canonical JSON of params.            *)
(***************************************************************************)
CacheKeys == {<<"perplexity", "p1">>, <<"perplexity", "p2">>}

Payloads == {"d1", "d2"}

Absent == "None"

\* a get that serves whatever is stored, however old
cache_get_without_expiry(c, key, t) ==
    IF key \notin DOMAIN c THEN [result |-> Absent, cache |-> c]
    ELSE [result |-> c[key].data, cache |-> c]

\* get: the value returned and the cache it leaves (an expired entry is evicted)
cache_get(c, key, t) ==
    IF key \notin DOMAIN c THEN [result |-> Absent, cache |-> c]
    ELSE IF t > c[key].expires_at
         THEN [result |-> Absent, cache |-> [k \in DOMAIN c \ {key} |-> c[k]]]
         ELSE [result |-> c[key].data, cache |-> c]

\* ttl = timedelta(hours=ttl_hours) if ttl_hours else self.default_ttl
cache_entry(data, ttl_hours, t) ==
    LET ttl == IF ttl_hours # 0 THEN ttl_hours ELSE default_ttl
    IN  [data |-> data, cached_at |-> t, expires_at |-> t + ttl]

cache_set(c, key, data, ttl_hours, t) ==
    (key :> cache_entry(data, ttl_hours, t)) @@ c

clear_expired(c, t) ==
    [k \in {x \in DOMAIN c : ~(t > c[x].expires_at)} |-> c[k]]

(***************************************************************************)
(* Exact arithmetic for the exhaustion levels: a value is <<n, d>>, the    *)
(* fraction n/d in lowest terms with d > 0.                                *)
(***************************************************************************)
RECURSIVE GCD(_, _)
GCD(a, b) == IF b = 0 THEN a ELSE GCD(b, a % b)

Abs(a) == IF a < 0 THEN -a ELSE a

Frac(n, d) ==
    LET g == GCD(Abs(n), Abs(d))
    IN  IF d < 0 THEN <<(-n) \div g, (-d) \div g>> ELSE <<n \div g, d \div g>>

FracAdd(x, y) == Frac(x[1] * y[2] + y[1] * x[2], x[2] * y[2])

FracMul(x, y) == Frac(x[1] * y[1], x[2] * y[2])

FracLess(x, y) == x[1] * y[2] < y[1] * x[2]

FracLeq(x, y) == x[1] * y[2] <= y[1] * x[2]

FracMin(x, y) == IF FracLeq(x, y) THEN x ELSE y

Zero == Frac(0, 1)

Hundred == Frac(100, 1)

(***************************************************************************)
(* QueryRotationManager: source exhaustion.  The dict source_exhaustion    *)
(* holds the level under the source's name and the time of the latest      *)
(* results under "<source>_last_check"; the model keeps the two kinds of   *)
(* key in two maps.                                                        *)
(***************************************************************************)
\* _load_state when query_rotation_state.json does not exist
fresh_rotation ==
    [queries_used |-> << >>, source_exhaustion |-> << >>, source_last_check |-> << >>,
     industry_rotation |-> << >>]

Sources == {"discovery_service"}

\* self.state["source_exhaustion"].get(source, 0)
exhaustion_of(state, source) ==
    IF source \in DOMAIN state.source_exhaustion
    THEN state.source_exhaustion[source]
    ELSE Zero

\* (duplicates / total_found) * 100, or 100 when nothing was found
duplicate_rate(total_found, duplicates) ==
    IF total_found > 0 THEN Frac(duplicates * 100, total_found) ELSE Hundred

\* the weighted average, without the cap
smoothed(current_exhaustion, rate) ==
    FracAdd(FracMul(current_exhaustion, Frac(7, 10)), FracMul(rate, Frac(3, 10)))

\* the weighted average stored as it is
new_exhaustion_uncapped(current_exhaustion, rate) ==
    smoothed(current_exhaustion, rate)

\* the duplicate rate stored in place of the weighted average
new_exhaustion_unsmoothed(current_exhaustion, rate) ==
    FracMin(rate, Hundred)

\* min(new_exhaustion, 100)
new_exhaustion(current_exhaustion, rate) ==
    FracMin(smoothed(current_exhaustion, rate), Hundred)

mark_source_results(state, source, total_found, duplicates, t) ==
    [state EXCEPT
        !.source_exhaustion =
            (source :> new_exhaustion(exhaustion_of(state, source),
                                      duplicate_rate(total_found, duplicates))) @@ @,
        !.source_last_check = (source :> t) @@ @]

\* the keys of the source_exhaustion dict: the source's name, and the
\* source's name followed by "_last_check"
level_key(source) == <<source, "">>

last_check_key(source) == <<source, "_last_check">>

\* QueryRotationManager._save_state: the file it leaves
save_rotation_state(state) ==
    Document([queries_used |-> state.queries_used,
              source_exhaustion |->
                  [k \in {level_key(s) : s \in DOMAIN state.source_exhaustion}
                          \cup {last_check_key(s) : s \in DOMAIN state.source_last_check} |->
                      IF k[2] = "" THEN state.source_exhaustion[k[1]]
                      ELSE state.source_last_check[k[1]]],
              industry_rotation |-> state.industry_rotation])

\* QueryRotationManager._load_state: only FileNotFoundError is caught
load_rotation_state(file) ==
    IF file.kind = "missing" THEN [raised |-> FALSE, state |-> fresh_rotation]
    ELSE IF file.kind = "corrupt" THEN [raised |-> TRUE, state |-> fresh_rotation]
    ELSE LET dict == file.content.source_exhaustion
             levels == {k[1] : k \in {x \in DOMAIN dict : x[2] = ""}}
             checks == {k[1] : k \in {x \in DOMAIN dict : x[2] = "_last_check"}}
         IN  [raised |-> FALSE,
              state |-> [queries_used |-> file.content.queries_used,
                         source_exhaustion |-> [s \in levels |-> dict[level_key(s)]],
                         source_last_check |-> [s \in checks |-> dict[last_check_key(s)]],
                         industry_rotation |-> file.content.industry_rotation]]

RecoveryHours == 24

\* should_use_source without the recovery after 24 hours
should_use_source_without_recovery(state, source, threshold, t) ==
    [answer |-> FracLess(exhaustion_of(state, source), threshold),
     compared |-> exhaustion_of(state, source),
     state |-> state]

\* should_use_source with the time of the recovery stored as the last check
should_use_source_refreshing(state, source, threshold, t) ==
    LET exhaustion == exhaustion_of(state, source)
        recovered ==
            /\ source \in DOMAIN state.source_last_check
            /\ t - state.source_last_check[source] > RecoveryHours
        halved == FracMul(exhaustion, Frac(1, 2))
    IN  IF recovered
        THEN [answer |-> FracLess(halved, threshold),
              compared |-> halved,
              state |-> [state EXCEPT !.source_exhaustion = (source :> halved) @@ @,
                                      !.source_last_check = (source :> t) @@ @]]
        ELSE [answer |-> FracLess(exhaustion, threshold),
              compared |-> exhaustion,
              state |-> state]

\* should_use_source: the answer and the state it leaves
should_use_source(state, source, threshold, t) ==
    LET exhaustion == exhaustion_of(state, source)
        recovered ==
            /\ source \in DOMAIN state.source_last_check
            /\ t - state.source_last_check[source] > RecoveryHours
        halved == FracMul(exhaustion, Frac(1, 2))
    IN  IF recovered
        THEN [answer |-> FracLess(halved, threshold),
              compared |-> halved,
              state |-> [state EXCEPT !.source_exhaustion = (source :> halved) @@ @]]
        ELSE [answer |-> FracLess(exhaustion, threshold),
              compared |-> exhaustion,
              state |-> state]

(***************************************************************************)
(* QueryRotationManager: the query templates and get_next_queries          *)
(***************************************************************************)
locations ==
    << <<"H","o","n","o","l","u","l","u">>, <<"O","a","h","u">>, <<"M","a","u","i">>, <<"K","a","u","a","i">>, <<"B","i","g"," ","I","s","l","a","n","d">>, <<"H","a","w","a","i","i"," ","I","s","l","a","n","d">>,
       <<"W","a","i","k","i","k","i">>, <<"L","a","h","a","i","n","a">>, <<"K","a","i","l","u","a","-","K","o","n","a">>, <<"H","i","l","o">>, <<"K","i","h","e","i">>, <<"W","a","i","p","a","h","u">>,
       <<"P","e","a","r","l"," ","C","i","t","y">>, <<"K","a","n","e","o","h","e">>, <<"K","a","p","o","l","e","i">>, <<"A","i","e","a">>, <<"M","i","l","i","l","a","n","i">>, <<"K","a","h","u","l","u","i">> >>

\* industry_keywords, in insertion order: <<industry, keywords>>
industry_keywords ==
    <<
      << <<"h","o","s","p","i","t","a","l","i","t","y">>,
         << <<"h","o","t","e","l">>, <<"r","e","s","o","r","t">>, <<"v","a","c","a","t","i","o","n"," ","r","e","n","t","a","l">>, <<"b","e","d"," ","a","n","d"," ","b","r","e","a","k","f","a","s","t">>, <<"i","n","n">>,
            <<"l","o","d","g","e">>, <<"h","o","s","t","e","l">>, <<"a","c","c","o","m","m","o","d","a","t","i","o","n">>, <<"b","e","a","c","h","f","r","o","n","t"," ","h","o","t","e","l">>,
            <<"b","o","u","t","i","q","u","e"," ","h","o","t","e","l">>, <<"l","u","x","u","r","y"," ","r","e","s","o","r","t">>, <<"t","i","m","e","s","h","a","r","e">> >> >>,
      << <<"t","o","u","r","i","s","m">>,
         << <<"t","o","u","r"," ","o","p","e","r","a","t","o","r">>, <<"a","c","t","i","v","i","t","y"," ","p","r","o","v","i","d","e","r">>, <<"t","o","u","r"," ","c","o","m","p","a","n","y">>, <<"e","x","c","u","r","s","i","o","n">>,
            <<"s","i","g","h","t","s","e","e","i","n","g">>, <<"a","d","v","e","n","t","u","r","e"," ","t","o","u","r","s">>, <<"s","n","o","r","k","e","l","i","n","g">>, <<"l","u","a","u">>,
            <<"b","o","a","t"," ","t","o","u","r","s">>, <<"h","e","l","i","c","o","p","t","e","r"," ","t","o","u","r","s">>, <<"z","i","p","l","i","n","e">> >> >>,
      << <<"r","e","s","t","a","u","r","a","n","t">>,
         << <<"r","e","s","t","a","u","r","a","n","t">>, <<"c","a","f","e">>, <<"c","o","f","f","e","e"," ","s","h","o","p">>, <<"b","a","r">>, <<"f","o","o","d"," ","t","r","u","c","k">>,
            <<"c","a","t","e","r","i","n","g">>, <<"b","a","k","e","r","y">>, <<"d","i","n","i","n","g">>, <<"f","a","s","t"," ","f","o","o","d">>, <<"f","i","n","e"," ","d","i","n","i","n","g">>,
            <<"s","e","a","f","o","o","d"," ","r","e","s","t","a","u","r","a","n","t">>, <<"a","s","i","a","n"," ","r","e","s","t","a","u","r","a","n","t">>, <<"b","r","e","a","k","f","a","s","t"," ","s","p","o","t">> >> >>,
      << <<"r","e","t","a","i","l">>,
         << <<"s","h","o","p">>, <<"b","o","u","t","i","q","u","e">>, <<"s","t","o","r","e">>, <<"r","e","t","a","i","l">>, <<"g","i","f","t"," ","s","h","o","p">>,
            <<"c","l","o","t","h","i","n","g"," ","s","t","o","r","e">>, <<"j","e","w","e","l","r","y"," ","s","t","o","r","e">>, <<"s","o","u","v","e","n","i","r"," ","s","h","o","p">>, <<"s","u","r","f"," ","s","h","o","p">>,
            <<"a","r","t"," ","g","a","l","l","e","r","y">>, <<"m","a","r","k","e","t","p","l","a","c","e">> >> >>,
      << <<"h","e","a","l","t","h","c","a","r","e">>,
         << <<"m","e","d","i","c","a","l"," ","c","l","i","n","i","c">>, <<"d","e","n","t","a","l"," ","o","f","f","i","c","e">>, <<"h","e","a","l","t","h","c","a","r","e"," ","p","r","o","v","i","d","e","r">>,
            <<"p","h","y","s","i","c","a","l"," ","t","h","e","r","a","p","y">>, <<"u","r","g","e","n","t"," ","c","a","r","e">>, <<"w","e","l","l","n","e","s","s"," ","c","e","n","t","e","r">>,
            <<"c","h","i","r","o","p","r","a","c","t","i","c">>, <<"m","e","d","i","c","a","l"," ","p","r","a","c","t","i","c","e">>, <<"h","e","a","l","t","h"," ","c","l","i","n","i","c">> >> >>,
      << <<"p","r","o","f","e","s","s","i","o","n","a","l","_","s","e","r","v","i","c","e","s">>,
         << <<"l","a","w"," ","f","i","r","m">>, <<"a","c","c","o","u","n","t","i","n","g"," ","f","i","r","m">>, <<"c","o","n","s","u","l","t","i","n","g">>, <<"i","n","s","u","r","a","n","c","e"," ","a","g","e","n","c","y">>,
            <<"r","e","a","l"," ","e","s","t","a","t","e">>, <<"m","a","r","k","e","t","i","n","g"," ","a","g","e","n","c","y">>, <<"f","i","n","a","n","c","i","a","l"," ","a","d","v","i","s","o","r">>,
            <<"b","u","s","i","n","e","s","s"," ","s","e","r","v","i","c","e","s">>, <<"p","r","o","p","e","r","t","y"," ","m","a","n","a","g","e","m","e","n","t">>, <<"t","a","x"," ","s","e","r","v","i","c","e","s">> >> >>,
      << <<"w","e","l","l","n","e","s","s">>,
         << <<"s","p","a">>, <<"m","a","s","s","a","g","e">>, <<"y","o","g","a"," ","s","t","u","d","i","o">>, <<"f","i","t","n","e","s","s"," ","c","e","n","t","e","r">>, <<"g","y","m">>,
            <<"w","e","l","l","n","e","s","s"," ","s","p","a">>, <<"b","e","a","u","t","y"," ","s","a","l","o","n">>, <<"d","a","y"," ","s","p","a">>, <<"h","e","a","l","t","h"," ","c","l","u","b">> >> >>,
      << <<"c","o","n","s","t","r","u","c","t","i","o","n">>,
         << <<"c","o","n","t","r","a","c","t","o","r">>, <<"c","o","n","s","t","r","u","c","t","i","o","n"," ","c","o","m","p","a","n","y">>, <<"b","u","i","l","d","e","r">>,
            <<"h","o","m","e"," ","i","m","p","r","o","v","e","m","e","n","t">>, <<"r","e","m","o","d","e","l","i","n","g">>, <<"r","o","o","f","i","n","g">>, <<"p","l","u","m","b","i","n","g">>,
            <<"e","l","e","c","t","r","i","c","a","l"," ","c","o","n","t","r","a","c","t","o","r">>, <<"l","a","n","d","s","c","a","p","i","n","g">> >> >>,
      << <<"e","d","u","c","a","t","i","o","n">>,
         << <<"s","c","h","o","o","l">>, <<"t","u","t","o","r","i","n","g">>, <<"t","r","a","i","n","i","n","g"," ","c","e","n","t","e","r">>, <<"d","a","y","c","a","r","e">>, <<"p","r","e","s","c","h","o","o","l">>,
            <<"e","d","u","c","a","t","i","o","n"," ","c","e","n","t","e","r">>, <<"l","e","a","r","n","i","n","g"," ","c","e","n","t","e","r">> >> >>
    >>

modifiers ==
    << <<"b","u","s","i","n","e","s","s">>, <<"c","o","m","p","a","n","y">>, <<"s","e","r","v","i","c","e">>, <<"p","r","o","v","i","d","e","r">>, <<"p","r","o","f","e","s","s","i","o","n","a","l">>,
       <<"l","o","c","a","l">>, <<"i","s","l","a","n","d">>, <<"h","a","w","a","i","i","a","n">>, <<"b","e","s","t">>, <<"t","o","p"," ","r","a","t","e","d">> >>

industries_in_order == [i \in 1..Len(industry_keywords) |-> industry_keywords[i][1]]

\* self.query_templates["industry_keywords"].get(ind, [ind])
keywords_of(ind) ==
    LET hits == {i \in 1..Len(industry_keywords) : industry_keywords[i][1] = ind}
    IN  IF hits = {} THEN <<ind>> ELSE industry_keywords[CHOOSE i \in hits : TRUE][2]

\* queries kept in the history
HistoryLimit == 100

\* a query is recent for this many days
RecentDays == 7

\* industries per run, locations per industry, locations considered
IndustriesPerRun == 3

LocationsPerIndustry == 2

TopLocations == 8

\* sorted(items, key=level): stable, ascending
RECURSIVE sort_by_level(_, _)
sort_by_level(items, level) ==
    IF items = << >> THEN << >>
    ELSE LET rest == sort_by_level(SubSeq(items, 1, Len(items) - 1), level)
             last == items[Len(items)]
             k == Cardinality({i \in 1..Len(rest) : level[rest[i]] <= level[last]})
         IN  SubSeq(rest, 1, k) \o <<last>> \o SubSeq(rest, k + 1, Len(rest))

\* a prioritization that puts the last items first
RECURSIVE prioritize_unexhausted_reversed(_, _, _)
prioritize_unexhausted_reversed(state, items, exhaustion_key) ==
    IF items = << >> THEN << >>
    ELSE Append(prioritize_unexhausted_reversed(state, Tail(items), exhaustion_key),
                Head(items))

\* _prioritize_unexhausted: the state has no "<category>_exhaustion" map
\* unless something stored one, and the level of an item without entry is 0
prioritize_unexhausted(state, items, exhaustion_key) ==
    LET exhaustion == IF exhaustion_key \in DOMAIN state THEN state[exhaustion_key] ELSE << >>
        level == [x \in {items[i] : i \in 1..Len(items)} |->
                     IF lower(x) \in DOMAIN exhaustion THEN exhaustion[lower(x)] ELSE 0]
    IN  sort_by_level(items, level)

\* a lookup that takes every entry of the history for old
was_query_used_recently_never(state, query, t) ==
    FALSE

\* _was_query_used_recently(query, days=7)
was_query_used_recently(state, query, t) ==
    \E i \in 1..Len(state.queries_used) :
        /\ lower(state.queries_used[i].query) = lower(query)
        /\ state.queries_used[i].used_at > t - RecentDays * HoursPerDay

\* _mark_query_used without the cut to the last 100
mark_query_used_without_limit(state, query, t) ==
    [state EXCEPT !.queries_used = Append(@, [query |-> query, used_at |-> t])]

\* _mark_query_used
mark_query_used(state, query, t) ==
    [state EXCEPT !.queries_used =
        last_n(Append(@, [query |-> query, used_at |-> t]), HistoryLimit)]

RECURSIVE mark_queries_used(_, _, _)
mark_queries_used(state, queries, t) ==
    IF queries = << >> THEN state
    ELSE mark_queries_used(mark_query_used(state, Head(queries), t), Tail(queries), t)

\* the industries to search
industries_for(state, industry) ==
    IF truthy(industry) THEN <<lower(industry)>>
    ELSE prioritize_unexhausted(state, industries_in_order, "industry_exhaustion")

\* the locations to search
locations_for(state, location) ==
    IF truthy(location)
    THEN LET matching == SelectSeq(locations,
                                   LAMBDA loc : contains(lower(loc), lower(location)))
         IN  IF matching = << >> THEN <<location>> ELSE matching
    ELSE prioritize_unexhausted(state, take(locations, TopLocations), "location_exhaustion")

\* for loc in locations[:2]: the queries after the loop over the locations
RECURSIVE location_loop(_, _, _, _, _, _)
location_loop(state, queries, keyword, locs, max_queries, t) ==
    IF locs = << >> THEN queries
    ELSE LET base_query == Head(locs) \o <<" ">> \o keyword
         IN  IF was_query_used_recently(state, base_query, t)
             THEN location_loop(state, queries, keyword, Tail(locs), max_queries, t)
             ELSE IF Len(queries) + 1 >= max_queries
                  THEN Append(queries, base_query)
                  ELSE location_loop(state, Append(queries, base_query), keyword,
                                     Tail(locs), max_queries, t)

\* a cursor that stays where it is
next_rotation_idx_held(rotation_idx, keywords) ==
    rotation_idx

\* (rotation_idx + 1) % len(keywords)
next_rotation_idx(rotation_idx, keywords) ==
    (rotation_idx + 1) % Len(keywords)

\* for ind in industries[:3]: the state (cursors advanced), the queries, and
\* (for the properties) the industries reached with the keyword of each
RECURSIVE industry_loop(_, _, _, _, _)
industry_loop(acc, inds, locs, max_queries, t) ==
    IF inds = << >> THEN acc
    ELSE LET ind == Head(inds)
             keywords == keywords_of(ind)
             rotation_idx == IF ind \in DOMAIN acc.state.industry_rotation
                             THEN acc.state.industry_rotation[ind] ELSE 0
             keyword == keywords[(rotation_idx % Len(keywords)) + 1]
             state1 == [acc.state EXCEPT !.industry_rotation =
                           (ind :> next_rotation_idx(rotation_idx, keywords)) @@ @]
             queries1 == location_loop(acc.state, acc.queries, keyword,
                                       take(locs, LocationsPerIndustry), max_queries, t)
         IN  CHOOSE out \in
                 {IF Len(acc1.queries) >= max_queries THEN acc1
                  ELSE industry_loop(acc1, Tail(inds), locs, max_queries, t) :
                      acc1 \in {[state |-> state1, queries |-> queries1,
                                 selected |-> Append(acc.selected,
                                                     [industry |-> ind,
                                                      keyword |-> keyword])]}} : TRUE

\* the element random.choice(seq) returns when the draw is n
choice(seq, n) == seq[((n - 1) % Len(seq)) + 1]

\* the fallback loop over all the industries; pick = <<keyword, location,
\* modifier>> draws of random.choice
RECURSIVE fallback_loop(_, _, _, _, _, _, _)
fallback_loop(state, queries, inds, locs, max_queries, pick, t) ==
    IF inds = << >> THEN queries
    ELSE LET keyword == choice(keywords_of(Head(inds)), pick[1])
             loc == choice(locs, pick[2])
             modifier == choice(modifiers, pick[3])
             query == modifier \o <<" ">> \o keyword \o <<" ">> \o loc
             queries1 == IF was_query_used_recently(state, query, t)
                         THEN queries ELSE Append(queries, query)
         IN  IF Len(queries1) >= max_queries THEN queries1
             ELSE fallback_loop(state, queries1, Tail(inds), locs, max_queries, pick, t)

\* get_next_queries: the queries returned and the state saved
get_next_queries(state, industry, location, max_queries, pick, t) ==
    LET inds == industries_for(state, industry)
        locs == locations_for(state, location)
        after_rotation(rotated) ==
            LET queries == IF Len(rotated.queries) < max_queries
                           THEN fallback_loop(state, rotated.queries, inds, locs,
                                              max_queries, pick, t)
                           ELSE rotated.queries
            IN  [queries |-> queries,
                 rotated |-> Len(rotated.queries),
                 selected |-> rotated.selected,
                 state |-> mark_queries_used(rotated.state, queries, t)]
    IN  CHOOSE out \in
            {after_rotation(rotated) :
                 rotated \in {industry_loop([state |-> state, queries |-> << >>,
                                             selected |-> << >>],
                                            take(inds, IndustriesPerRun), locs,
                                            max_queries, t)}} : TRUE

(***************************************************************************)
(* Initial states: what the constructors leave                             *)
(***************************************************************************)
NoCall ==
    [made |-> FALSE, batch |-> << >>, existing |-> {}, leads |-> << >>, kept |-> << >>,
     outcomes |-> << >>, before |-> fresh_ledger, day |-> 0]

NoGet == [made |-> FALSE, key |-> <<"", "">>, result |-> Absent, at |-> 0]

NoUse ==
    [made |-> FALSE, source |-> "", threshold |-> Zero, answer |-> FALSE,
     compared |-> Zero, before |-> fresh_rotation, at |-> 0,
     repeated |-> FALSE, first_answer |-> FALSE]

PipelineInit ==
    /\ ledger = fresh_ledger
    /\ call = NoCall

CacheInit ==
    /\ cache = << >>
    /\ stored = << >>
    /\ got = NoGet

NoAsk ==
    [made |-> FALSE, industry |-> << >>, location |-> << >>, max_queries |-> 0,
     queries |-> << >>, rotated |-> 0, selected |-> << >>, cursors |-> << >>,
     history |-> << >>, earlier |-> {}, at |-> 0]

RotationInit ==
    /\ rotation = fresh_rotation
    /\ used = NoUse
    /\ calls = 0
    /\ runs = 0
    /\ asked = NoAsk
    /\ emitted = {}
    /\ emissions = << >>
    /\ selections = << >>
    /\ recorded = << >>

RequestIds == 1..MaxRequests

NoRequest ==
    [pc |-> "idle", remaining_capacity |-> 0, total_discovered |-> 0,
     duplicates_skipped |-> 0, icp_filtered |-> 0, prioritized |-> 0,
     saved_leads |-> << >>, counted_on |-> 0,
     discovered_leads |-> << >>, outcomes |-> << >>, cut_before |-> {},
     reported_duplicates |-> 0]

EndpointInit ==
    /\ db_leads = {}
    /\ cut_off = {}
    /\ request = [r \in RequestIds |-> NoRequest]

NoScore == [made |-> FALSE, icp |-> default_icp, lead |-> Pool[1], score |-> 0]

NoNormalize ==
    [made |-> FALSE, normalizer |-> "", input |-> << >>, once |-> << >>, twice |-> << >>]

Managers == {"DiscoveryStateManager", "QueryRotationManager"}

NoLoad ==
    [made |-> FALSE, manager |-> "", file |-> Missing, raised |-> FALSE,
     state |-> fresh_ledger]

NoPass ==
    [active |-> FALSE, rest |-> << >>,
     acc |-> [state |-> fresh_ledger, names |-> {}, websites |-> {}, phones |-> {},
              filtered_leads |-> << >>, outcomes |-> << >>]]

\* both managers constructed when neither file existed, nothing saved yet
ProcessInit ==
    /\ state_file = Missing
    /\ rotation_file = Missing
    /\ up = Managers
    /\ loaded = NoLoad
    /\ pass = NoPass
    /\ processed = << >>

NoReset == [made |-> FALSE, before |-> fresh_ledger, at |-> 0]

NoCheck ==
    [made |-> FALSE, source |-> "", query |-> "", hours_threshold |-> 0, answer |-> FALSE,
     before |-> fresh_ledger, file |-> Missing, at |-> 0, marks |-> {}]

UnitInit ==
    /\ scored = NoScore
    /\ normalized = NoNormalize
    /\ reset = NoReset
    /\ checked = NoCheck

Init ==
    /\ now = 0
    /\ daily_limit \in 0..MaxDailyLimit
    /\ default_ttl = MaxTtlHours
    /\ PipelineInit
    /\ CacheInit
    /\ RotationInit
    /\ EndpointInit
    /\ ProcessInit
    /\ UnitInit

(***************************************************************************)
(* Direct use of the manager: any batch, any stored records, the caller    *)
(* reporting afterwards how many of the returned leads it persisted.       *)
(***************************************************************************)
FilterAndPrioritize(batch, existing) ==
    LET r == filter_and_prioritize_leads(ledger, batch, existing, Today, daily_limit)
    IN  /\ ~call.made
        /\ ledger' = r.state
        /\ state_file' = IF r.state # ledger THEN save_state(r.state) ELSE state_file
        /\ call' = [made |-> TRUE, batch |-> batch, existing |-> existing,
                    leads |-> r.leads, kept |-> r.kept, outcomes |-> r.outcomes,
                    before |-> ledger, day |-> Today]
        /\ UNCHANGED <<unit_vars, process_vars, now, daily_limit, cache_vars, rotation_vars, endpoint_vars>>

\* mark_leads_added(count), count being what the caller persisted of the result
MarkLeadsAdded(count) ==
    /\ call.made
    /\ count <= Len(call.leads)
    /\ ledger' = increment_daily_leads(ledger, Today, count)
    /\ state_file' = save_state(ledger')
    /\ call' = NoCall
    /\ UNCHANGED <<unit_vars, process_vars, now, daily_limit, cache_vars, rotation_vars, endpoint_vars>>

\* the caller drops the result without reporting anything
DiscardResult ==
    /\ call.made
    /\ call' = NoCall
    /\ UNCHANGED <<unit_vars, process_vars, now, daily_limit, ledger, state_file, cache_vars, rotation_vars, endpoint_vars>>

Next ==
    \/ \E batch \in Batches, existing \in ExistingChoices : FilterAndPrioritize(batch, existing)
    \/ \E count \in 0..MaxBatch : MarkLeadsAdded(count)
    \/ DiscardResult

Spec == Init /\ [][Next]_vars

(***************************************************************************)
(* The response cache on its own                                           *)
(***************************************************************************)
InitCache ==
    /\ now = 0
    /\ daily_limit = MaxDailyLimit
    /\ default_ttl \in 1..MaxTtlHours
    /\ PipelineInit
    /\ CacheInit
    /\ RotationInit
    /\ EndpointInit
    /\ ProcessInit
    /\ UnitInit

CacheSet(key, data, ttl_hours) ==
    /\ cache' = cache_set(cache, key, data, ttl_hours, now)
    /\ stored' = (key :> cache_entry(data, ttl_hours, now)) @@ stored
    /\ got' = NoGet
    /\ UNCHANGED <<unit_vars, process_vars, now, default_ttl, pipeline_vars, rotation_vars, endpoint_vars>>

CacheGet(key) ==
    LET r == cache_get(cache, key, now)
    IN  /\ cache' = r.cache
        /\ got' = [made |-> TRUE, key |-> key, result |-> r.result, at |-> now]
        /\ UNCHANGED <<unit_vars, process_vars, now, default_ttl, stored, pipeline_vars, rotation_vars, endpoint_vars>>

ClearExpired ==
    /\ cache' = clear_expired(cache, now)
    /\ got' = NoGet
    /\ UNCHANGED <<unit_vars, process_vars, now, default_ttl, stored, pipeline_vars, rotation_vars, endpoint_vars>>

TickHour ==
    /\ now < MaxCacheHour
    /\ now' = now + 1
    /\ got' = NoGet
    /\ UNCHANGED <<unit_vars, process_vars, default_ttl, cache, stored, pipeline_vars, rotation_vars, endpoint_vars>>

NextCache ==
    \/ \E key \in CacheKeys, data \in Payloads, ttl_hours \in 0..MaxTtlHours :
          CacheSet(key, data, ttl_hours)
    \/ \E key \in CacheKeys : CacheGet(key)
    \/ ClearExpired
    \/ TickHour

SpecCache == InitCache /\ [][NextCache]_vars

(***************************************************************************)
(* Source exhaustion on its own                                            *)
(***************************************************************************)
HalfDayHours == HoursPerDay \div 2

\* the results a caller can report: nothing found, all new, mostly
\* duplicates, more duplicates than results
ReportedResults == {<<0, 0>>, <<10, 0>>, <<10, 9>>, <<1, 3>>}

Thresholds == {Frac(80, 1), Frac(30, 1)}

InitSource ==
    /\ now = 0
    /\ daily_limit = MaxDailyLimit
    /\ default_ttl = MaxTtlHours
    /\ PipelineInit
    /\ CacheInit
    /\ RotationInit
    /\ EndpointInit
    /\ ProcessInit
    /\ UnitInit

MarkSourceResults(source, total_found, duplicates) ==
    /\ calls < MaxSourceCalls
    /\ calls' = calls + 1
    /\ rotation' = mark_source_results(rotation, source, total_found, duplicates, now)
    /\ rotation_file' = save_rotation_state(rotation')
    /\ recorded' = (source :> [level |-> exhaustion_of(rotation', source), at |-> now,
                               total_found |-> total_found, duplicates |-> duplicates,
                               before |-> rotation.source_exhaustion])
                        @@ recorded
    /\ used' = NoUse
    /\ UNCHANGED <<unit_vars, process_vars, now, runs, asked, emitted, emissions, selections, pipeline_vars, cache_vars, endpoint_vars>>

ShouldUseSource(source, threshold) ==
    LET r == should_use_source(rotation, source, threshold, now)
    IN  /\ calls < MaxSourceCalls
        /\ calls' = calls + 1
        /\ rotation' = r.state
        /\ rotation_file' = IF r.state # rotation THEN save_rotation_state(r.state)
                            ELSE rotation_file
        /\ used' = [made |-> TRUE, source |-> source, threshold |-> threshold,
                    answer |-> r.answer, compared |-> r.compared,
                    before |-> rotation, at |-> now,
                    repeated |-> /\ used.made
                                 /\ used.source = source
                                 /\ used.threshold = threshold
                                 /\ used.at = now,
                    first_answer |-> used.answer]
        /\ UNCHANGED <<unit_vars, process_vars, now, runs, asked, emitted, emissions, selections, recorded, pipeline_vars, cache_vars, endpoint_vars>>

TickHalfDay ==
    /\ now < MaxHalfDays * HalfDayHours
    /\ now' = now + HalfDayHours
    /\ used' = NoUse
    /\ UNCHANGED <<unit_vars, process_vars, rotation, rotation_file, calls, runs, asked, emitted, emissions, selections, recorded, pipeline_vars, cache_vars, endpoint_vars>>

NextSource ==
    \/ \E source \in Sources, r \in ReportedResults : MarkSourceResults(source, r[1], r[2])
    \/ \E source \in Sources, threshold \in Thresholds : ShouldUseSource(source, threshold)
    \/ TickHalfDay

SpecSource == InitSource /\ [][NextSource]_vars

(***************************************************************************)
(* Query rotation on its own                                               *)
(***************************************************************************)
None == << >>

\* the location filter of the n-th earlier run: none for the first, then
\* the locations after Oahu in turn
saved_location(n) ==
    IF n = 1 THEN None
    ELSE locations[((n - 2) % (Len(locations) - 2)) + 3]

\* the queries a call at time t returned, each with the time
RECURSIVE stamped(_, _)
stamped(queries, t) ==
    IF queries = << >> THEN << >>
    ELSE <<[query |-> Head(queries), used_at |-> t]>> \o stamped(Tail(queries), t)

\* the keywords the rotation step of a call used, appended to the log of
\* their industries
RECURSIVE selected_into(_, _)
selected_into(log, selected) ==
    IF selected = << >> THEN log
    ELSE LET ind == Head(selected).industry
             sofar == IF ind \in DOMAIN log THEN log[ind] ELSE << >>
         IN  selected_into((ind :> Append(sofar, Head(selected).keyword)) @@ log,
                           Tail(selected))

\* <<lowercased query, time>> of the queries a call at time t returned
emitted_at(queries, t) ==
    {<<lower(queries[i]), t>> : i \in 1..Len(queries)}

\* what the callers pass: industry and location, or neither
AskedFilters == {<<None, None>>, <<<<"H","o","t","e","l">>, <<"H","o","n","o","l","u","l","u">>>>}

AskedCounts == {1, 5}

\* the draws of random.choice: keyword, location, modifier
Picks == {<<1, 1, 1>>, <<2, 3, 4>>}

InitRotation ==
    /\ now = 0
    /\ daily_limit = MaxDailyLimit
    /\ default_ttl = MaxTtlHours
    /\ PipelineInit
    /\ CacheInit
    /\ RotationInit
    /\ EndpointInit
    /\ ProcessInit
    /\ UnitInit

\* one get_next_queries call and what the model remembers of it
Ask(industry, location, max_queries, pick) ==
    \E r \in {get_next_queries(rotation, industry, location, max_queries, pick, now)} :
        /\ rotation' = r.state
        /\ rotation_file' = save_rotation_state(r.state)
        /\ asked' = [made |-> TRUE, industry |-> industry, location |-> location,
                     max_queries |-> max_queries, queries |-> r.queries,
                     rotated |-> r.rotated, selected |-> r.selected,
                     cursors |-> rotation.industry_rotation,
                     history |-> rotation.queries_used,
                     earlier |-> emitted, at |-> now]
        /\ emitted' = emitted \cup emitted_at(r.queries, now)
        /\ selections' = selected_into(selections, r.selected)
        /\ emissions' = emissions \o stamped(r.queries, now)

\* the runs of the first day: 5 queries each, a location filter from the
\* second run on
EarlierRun ==
    /\ now = 0
    /\ runs < SavedRuns
    /\ runs' = runs + 1
    /\ Ask(None, saved_location(runs + 1), 5, <<1, 1, 1>>)
    /\ UNCHANGED <<unit_vars, process_vars, now, used, calls, recorded, pipeline_vars, cache_vars, endpoint_vars>>

\* no run for SavedAgeDays days, before the first run or after the last
Idle ==
    /\ now = 0
    /\ runs \in {0, SavedRuns}
    /\ now' = SavedAgeDays * HoursPerDay
    /\ asked' = NoAsk
    /\ UNCHANGED <<unit_vars, process_vars, rotation, rotation_file, used, calls, runs, emitted, emissions, selections, recorded, pipeline_vars, cache_vars, endpoint_vars>>

GetNextQueries(industry, location, max_queries, pick) ==
    /\ now >= SavedAgeDays * HoursPerDay
    /\ calls < MaxQueryCalls
    /\ calls' = calls + 1
    /\ Ask(industry, location, max_queries, pick)
    /\ UNCHANGED <<unit_vars, process_vars, now, used, runs, recorded, pipeline_vars, cache_vars, endpoint_vars>>

TickDay ==
    /\ now >= SavedAgeDays * HoursPerDay
    /\ now < MaxRotationDay * HoursPerDay
    /\ now' = now + HoursPerDay
    /\ asked' = NoAsk
    /\ UNCHANGED <<unit_vars, process_vars, rotation, rotation_file, used, calls, runs, emitted, emissions, selections, recorded, pipeline_vars, cache_vars, endpoint_vars>>

NextRotation ==
    \/ EarlierRun
    \/ Idle
    \/ \E filters \in AskedFilters, max_queries \in AskedCounts, pick \in Picks :
          GetNextQueries(filters[1], filters[2], max_queries, pick)
    \/ TickDay

SpecRotation == InitRotation /\ [][NextRotation]_vars

(***************************************************************************)
(* The discovery endpoint (main.py, discover_leads).  The coroutine gives  *)
(* up the event loop only inside discover_hawaii_businesses, which waits   *)
(* for the scrapers: get_leads and upsert_lead of SupabaseDB are           *)
(* coroutines without an await of their own (the Supabase client is the    *)
(* synchronous one), so from the return of the discovery to the end of     *)
(* the handler nothing else runs on the loop.  Only the clock moves: the   *)
(* handler can pass midnight between the pipeline and mark_leads_added.    *)
(***************************************************************************)
\* get_diversified_parameters: the state it leaves is that of its
\* get_next_queries call; the parameters it returns are only printed
get_diversified_parameters(state, user_industry, user_location, pick, t) ==
    get_next_queries(state, user_industry, user_location, 5, pick, t)

\* duplicates_skipped as the endpoint computes it after the pipeline
duplicates_skipped_of(state, discovered_leads) ==
    LET counted == {i \in 1..Len(discovered_leads) :
                       \/ ~is_company_seen(state, Pool[discovered_leads[i]].company_name)
                       \/ is_company_filtered(state, Pool[discovered_leads[i]].company_name)}
    IN  Len(discovered_leads) - Cardinality(counted)

\* the filters of a request: industry, island (the defaults)
RequestFilters == {<<None, None>>}

\* query_manager.get_diversified_parameters(user_industry, user_location)
\* in the handler, and what the model remembers of its get_next_queries call
Plan(user_industry, user_location, pick) ==
    \E r \in {get_diversified_parameters(rotation, user_industry, user_location, pick, now)} :
        /\ rotation' = r.state
        /\ rotation_file' = save_rotation_state(r.state)
        /\ asked' = [made |-> TRUE, industry |-> user_industry, location |-> user_location,
                     max_queries |-> 5, queries |-> r.queries,
                     rotated |-> r.rotated, selected |-> r.selected,
                     cursors |-> rotation.industry_rotation,
                     history |-> rotation.queries_used,
                     earlier |-> emitted, at |-> now]
        /\ emitted' = emitted \cup emitted_at(r.queries, now)
        /\ selections' = selected_into(selections, r.selected)
        /\ emissions' = emissions \o stamped(r.queries, now)

\* the handler without its early return: it plans queries whatever is left
Start_without_refusal(r, filters, pick) ==
    /\ request[r].pc = "idle"
    /\ request' = [request EXCEPT ![r] =
                      [@ EXCEPT !.pc = "discovering",
                                !.remaining_capacity =
                                    get_remaining_daily_capacity(ledger, Today, daily_limit)]]
    /\ Plan(filters[1], filters[2], pick)
    /\ UNCHANGED <<unit_vars, process_vars, now, pipeline_vars, cache_vars, used, calls,
                   runs, recorded, db_leads, cut_off>>

\* the part of the handler before the discovery is awaited
Start(r, filters, pick) ==
    LET remaining_capacity == get_remaining_daily_capacity(ledger, Today, daily_limit)
    IN  /\ request[r].pc = "idle"
        /\ IF remaining_capacity <= 0
           THEN /\ request' = [request EXCEPT ![r] = [@ EXCEPT !.pc = "refused"]]
                /\ UNCHANGED <<rotation, rotation_file, asked, emitted, emissions, selections>>
           ELSE /\ request' = [request EXCEPT ![r] =
                                  [@ EXCEPT !.pc = "discovering",
                                            !.remaining_capacity = remaining_capacity]]
                /\ Plan(filters[1], filters[2], pick)
        /\ UNCHANGED <<unit_vars, process_vars, now, pipeline_vars, cache_vars, used, calls, runs, recorded,
                       db_leads, cut_off>>

\* a request is accepted only when no other is being served
StartAlone(r, filters, pick) ==
    /\ \A other \in RequestIds : request[other].pc # "discovering"
    /\ Start(r, filters, pick)

\* the part of the handler after the discovery returned discovered_leads;
\* at_midnight: the day changes between the pipeline and mark_leads_added
Resume(r, discovered_leads, at_midnight) ==
    LET result == filter_and_prioritize_leads(ledger, discovered_leads, db_leads,
                                              Today, daily_limit)
        duplicates_skipped == duplicates_skipped_of(result.state, discovered_leads)
        icp_filtered == Len(discovered_leads) - duplicates_skipped - Len(result.leads)
        saved_leads == result.leads
        then == IF at_midnight THEN (Today + 1) * HoursPerDay ELSE now
    IN  /\ request[r].pc = "discovering"
        /\ at_midnight => Today < MaxDay
        /\ now' = then
        /\ db_leads' = db_leads \cup {saved_leads[i] : i \in 1..Len(saved_leads)}
        /\ ledger' = increment_daily_leads(result.state, then \div HoursPerDay,
                                           Len(saved_leads))
        /\ state_file' = save_state(ledger')
        /\ rotation' = mark_source_results(rotation, "discovery_service",
                                           Len(discovered_leads), duplicates_skipped, then)
        /\ rotation_file' = save_rotation_state(rotation')
        /\ recorded' = ("discovery_service" :>
                            [level |-> exhaustion_of(rotation', "discovery_service"),
                             at |-> then,
                             total_found |-> Len(discovered_leads),
                             duplicates |-> duplicates_skipped,
                             before |-> rotation.source_exhaustion]) @@ recorded
        /\ request' = [request EXCEPT ![r] =
                          [@ EXCEPT !.pc = "done",
                                    !.total_discovered = Len(discovered_leads),
                                    !.duplicates_skipped = duplicates_skipped,
                                    !.icp_filtered = icp_filtered,
                                    !.prioritized = Len(result.kept),
                                    !.saved_leads = saved_leads,
                                    !.counted_on = then \div HoursPerDay,
                                    !.discovered_leads = discovered_leads,
                                    !.outcomes = result.outcomes,
                                    !.cut_before = cut_off,
                                    !.reported_duplicates =
                                        recorded'["discovery_service"].duplicates]]
        /\ cut_off' = cut_off \cup ({result.kept[i] : i \in 1..Len(result.kept)}
                                      \ {saved_leads[i] : i \in 1..Len(saved_leads)})
        /\ UNCHANGED <<unit_vars, process_vars, daily_limit, call, cache_vars, used, calls, runs, asked, emitted, emissions, selections>>

\* a day passes
NextDay ==
    /\ Today < MaxDay
    /\ now' = now + HoursPerDay
    /\ UNCHANGED <<unit_vars, process_vars, pipeline_vars, cache_vars, rotation_vars, endpoint_vars>>

NextSequential ==
    \/ \E r \in RequestIds, filters \in RequestFilters, pick \in Picks :
          StartAlone(r, filters, pick)
    \/ \E r \in RequestIds, discovered_leads \in Batches, at_midnight \in BOOLEAN :
          Resume(r, discovered_leads, at_midnight)
    \/ NextDay

SpecSequential == Init /\ [][NextSequential]_vars

NextOverlap ==
    \/ \E r \in RequestIds, filters \in RequestFilters, pick \in Picks :
          Start(r, filters, pick)
    \/ \E r \in RequestIds, discovered_leads \in Batches, at_midnight \in BOOLEAN :
          Resume(r, discovered_leads, at_midnight)
    \/ NextDay

SpecOverlap == Init /\ [][NextOverlap]_vars

(***************************************************************************)
(* The process and its two state files: the managers are constructed from  *)
(* whatever the files hold, the loop of filter_and_prioritize_leads runs   *)
(* candidate by candidate, the counters are incremented, and the process   *)
(* can be aborted at any point between two of these steps.                 *)
(***************************************************************************)
\* the batches the scraping layer hands over while the files are watched
DurableBatches == {<<1, 2>>, <<2, 3>>, <<5>>}

InitDurable ==
    /\ now = 0
    /\ daily_limit = MaxDailyLimit
    /\ default_ttl = MaxTtlHours
    /\ PipelineInit
    /\ CacheInit
    /\ RotationInit
    /\ EndpointInit
    /\ UnitInit
    /\ state_file \in {Missing, Corrupt}
    /\ rotation_file \in {Missing, Corrupt}
    /\ up = {}
    /\ loaded = NoLoad
    /\ pass = NoPass
    /\ processed = << >>

\* DiscoveryStateManager(): __init__ calls _load_state
ConstructDiscoveryStateManager ==
    LET r == load_state(state_file)
    IN  /\ "DiscoveryStateManager" \notin up
        /\ loaded' = [made |-> TRUE, manager |-> "DiscoveryStateManager",
                      file |-> state_file, raised |-> r.raised, state |-> r.state]
        /\ IF r.raised
           THEN UNCHANGED <<up, ledger>>
           ELSE /\ up' = up \cup {"DiscoveryStateManager"}
                /\ ledger' = r.state
        /\ UNCHANGED <<now, daily_limit, state_file, call, cache_vars, rotation_vars,
                       endpoint_vars, unit_vars, pass, processed>>

\* QueryRotationManager(): __init__ calls _load_state
ConstructQueryRotationManager ==
    LET r == load_rotation_state(rotation_file)
    IN  /\ "QueryRotationManager" \notin up
        /\ loaded' = [made |-> TRUE, manager |-> "QueryRotationManager",
                      file |-> rotation_file, raised |-> r.raised, state |-> r.state]
        /\ IF r.raised
           THEN UNCHANGED <<up, rotation>>
           ELSE /\ up' = up \cup {"QueryRotationManager"}
                /\ rotation' = r.state
        /\ UNCHANGED <<now, pipeline_vars, cache_vars, rotation_file, used, calls, runs,
                       asked, emitted, emissions, selections, recorded, endpoint_vars, unit_vars, pass, processed>>

\* filter_and_prioritize_leads up to the loop
BeginPass(discovered_leads, existing_leads) ==
    LET sets == existing_sets(existing_leads)
    IN  /\ "DiscoveryStateManager" \in up
        /\ ~pass.active
        /\ Len(processed) + Len(discovered_leads) <= MaxProcessed
        /\ pass' = [active |-> TRUE, rest |-> discovered_leads,
                    acc |-> [state |-> ledger, names |-> sets.names,
                             websites |-> sets.websites, phones |-> sets.phones,
                             filtered_leads |-> << >>, outcomes |-> << >>]]
        /\ loaded' = NoLoad
        /\ UNCHANGED <<now, pipeline_vars, cache_vars, rotation_vars, endpoint_vars,
                       unit_vars, up, processed>>

\* one iteration of the loop; mark_company_filtered and mark_company_seen
\* end with _save_state
ProcessLead ==
    LET acc == process_lead(pass.acc, Head(pass.rest))
        outcome == acc.outcomes[Len(acc.outcomes)]
    IN  /\ pass.active
        /\ pass.rest # << >>
        /\ pass' = [pass EXCEPT !.rest = Tail(@), !.acc = acc]
        /\ ledger' = acc.state
        /\ state_file' = IF outcome \in {"below_threshold", "kept"}
                         THEN save_state(acc.state)
                         ELSE state_file
        /\ processed' = Append(processed, <<Head(pass.rest), outcome>>)
        /\ UNCHANGED <<now, daily_limit, call, cache_vars, rotation_vars, endpoint_vars,
                       unit_vars, up, loaded>>

\* the loop is over and the call returns
EndPass ==
    /\ pass.active
    /\ pass.rest = << >>
    /\ pass' = NoPass
    /\ UNCHANGED <<now, pipeline_vars, cache_vars, rotation_vars, endpoint_vars,
                   unit_vars, up, loaded, processed>>

IncrementDailyLeads(count) ==
    /\ "DiscoveryStateManager" \in up
    /\ ~pass.active
    /\ calls < MaxCounterCalls
    /\ calls' = calls + 1
    /\ ledger' = increment_daily_leads(ledger, Today, count)
    /\ state_file' = save_state(ledger')
    /\ loaded' = NoLoad
    /\ UNCHANGED <<now, daily_limit, call, cache_vars, rotation, rotation_file, used, runs,
                   asked, emitted, emissions, selections, recorded, endpoint_vars, unit_vars, up, pass, processed>>

IncrementApiCalls(count) ==
    /\ "DiscoveryStateManager" \in up
    /\ ~pass.active
    /\ calls < MaxCounterCalls
    /\ calls' = calls + 1
    /\ ledger' = increment_api_calls(ledger, Today, count)
    /\ state_file' = save_state(ledger')
    /\ loaded' = NoLoad
    /\ UNCHANGED <<now, daily_limit, call, cache_vars, rotation, rotation_file, used, runs,
                   asked, emitted, emissions, selections, recorded, endpoint_vars, unit_vars, up, pass, processed>>

\* the process ends where it stands: what was in memory is gone, the files stay
Abort ==
    /\ up # {}
    /\ up' = {}
    /\ ledger' = fresh_ledger
    /\ rotation' = fresh_rotation
    /\ pass' = [NoPass EXCEPT !.rest = pass.rest]
    /\ loaded' = NoLoad
    /\ UNCHANGED <<now, daily_limit, state_file, call, cache_vars, rotation_file, used,
                   calls, runs, asked, emitted, emissions, selections, recorded, endpoint_vars, unit_vars,
                   processed>>

NextDurable ==
    \/ ConstructDiscoveryStateManager
    \/ ConstructQueryRotationManager
    \/ \E discovered_leads \in DurableBatches, existing_leads \in ExistingChoices :
          BeginPass(discovered_leads, existing_leads)
    \/ ProcessLead
    \/ EndPass
    \/ \E count \in 0..MaxBatch : IncrementDailyLeads(count)
    \/ \E count \in 1..MaxBatch : IncrementApiCalls(count)
    \/ Abort

SpecDurable == InitDurable /\ [][NextDurable]_vars

(***************************************************************************)
(* The daily counters over a month: leads and external calls are counted   *)
(* on the days the service is used, and reset_daily_stats is called        *)
(* (POST /api/leads/reset-daily-limit) at any moment.                      *)
(***************************************************************************)
\* the days on which the service is used
WatchedDays == {0, 1, 2, 31, 32}

InitRetention ==
    /\ now = 0
    /\ daily_limit = MaxDailyLimit
    /\ default_ttl = MaxTtlHours
    /\ PipelineInit
    /\ CacheInit
    /\ RotationInit
    /\ EndpointInit
    /\ ProcessInit
    /\ UnitInit

\* mark_leads_added(count)
CountLeads(count) ==
    /\ calls < MaxRetentionCalls
    /\ calls' = calls + 1
    /\ ledger' = increment_daily_leads(ledger, Today, count)
    /\ state_file' = save_state(ledger')
    /\ reset' = NoReset
    /\ UNCHANGED <<now, daily_limit, call, cache_vars, rotation, rotation_file, used, runs,
                   asked, emitted, emissions, selections, recorded, endpoint_vars, scored, normalized, checked,
                   process_vars>>

\* increment_api_calls(count)
CountApiCalls(count) ==
    /\ calls < MaxRetentionCalls
    /\ calls' = calls + 1
    /\ ledger' = increment_api_calls(ledger, Today, count)
    /\ state_file' = save_state(ledger')
    /\ reset' = NoReset
    /\ UNCHANGED <<now, daily_limit, call, cache_vars, rotation, rotation_file, used, runs,
                   asked, emitted, emissions, selections, recorded, endpoint_vars, scored, normalized, checked,
                   process_vars>>

\* reset_daily_limit: state_manager.reset_daily_stats()
ResetDailyStats ==
    /\ ledger' = reset_daily_stats(ledger, Today)
    /\ state_file' = save_state(ledger')
    /\ reset' = [made |-> TRUE, before |-> ledger, at |-> Today]
    /\ UNCHANGED <<now, daily_limit, call, cache_vars, rotation_vars, endpoint_vars,
                   scored, normalized, checked, process_vars>>

\* nothing happens until a later watched day
PassDays(day) ==
    /\ day > Today
    /\ now' = day * HoursPerDay
    /\ reset' = NoReset
    /\ UNCHANGED <<pipeline_vars, cache_vars, rotation_vars, endpoint_vars, scored,
                   normalized, checked, process_vars>>

NextRetention ==
    \/ \E count \in 1..MaxBatch : CountLeads(count)
    \/ \E count \in 1..MaxBatch : CountApiCalls(count)
    \/ ResetDailyStats
    \/ \E day \in WatchedDays : PassDays(day)

SpecRetention == InitRetention /\ [][NextRetention]_vars

(***************************************************************************)
(* The fit scorer on its own: any criteria with non-negative weights, any  *)
(* candidate                                                               *)
(***************************************************************************)
\* criteria that match nothing and weigh nothing
flat_icp ==
    [preferred_industries |-> << >>, preferred_locations |-> << >>,
     preferred_company_sizes |-> << >>, key_pain_points |-> << >>,
     tech_indicators |-> << >>]

\* criteria whose industry weight alone passes 100
steep_icp ==
    [preferred_industries |-> << <<<<"t","o","u","r","i","s","m">>, 60>>, <<<<"h","e","a","l","t","h">>, 0>> >>,
     preferred_locations |-> << <<<<"m","a","u","i">>, 40>> >>,
     preferred_company_sizes |-> [c \in {"51-100", "1000+"} |-> 30],
     key_pain_points |-> << <<"a","u","t","o","m","a","t","i","o","n">> >>,
     tech_indicators |-> << <<"c","r","m">>, <<"a","p","i">> >>]

Profiles == {default_icp, flat_icp, steep_icp}

\* a description naming six pain points and six technology indicators
RichDescription ==
    <<"m","a","n","u","a","l"," ","p","r","o","c","e","s","s","e","s",","," ","d","a","t","a"," ","a","n","a","l","y","s","i","s",","," ","a","u","t","o","m","a","t","i","o","n",","," ","e","f","f","i","c","i","e","n","c","y",","," ","p","e","r","s","o","n","a","l","i","z","a","t","i","o","n",","," ","c","u","s","t","o","m","e","r"," ","i","n","s","i","g","h","t","s",";"," ","c","r","m",","," ","c","l","o","u","d",","," ","a","p","i",","," ","i","n","t","e","g","r","a","t","i","o","n",","," ","e","c","o","m","m","e","r","c","e",","," ","m","o","b","i","l","e"," ","a","p","p">>

ScoredLeads ==
    {Lead(<<"A","c","m","e">>, website, phone, industry, location, employees, description) :
        website \in {<< >>, <<"a","c","m","e",".","c","o","m">>},
        phone \in {<< >>, <<"8","0","8">>},
        industry \in {<< >>, <<"E","c","o","-","T","o","u","r","i","s","m">>, <<"H","e","a","l","t","h","c","a","r","e">>},
        location \in {<< >>, <<"H","o","n","o","l","u","l","u">>, <<"K","i","h","e","i",","," ","M","a","u","i">>},
        employees \in {0, 80, 1000},
        description \in {<< >>, RichDescription}}

InitScore ==
    /\ now = 0
    /\ daily_limit = MaxDailyLimit
    /\ default_ttl = MaxTtlHours
    /\ PipelineInit
    /\ CacheInit
    /\ RotationInit
    /\ EndpointInit
    /\ ProcessInit
    /\ normalized = NoNormalize
    /\ reset = NoReset
    /\ checked = NoCheck
    /\ \E icp \in Profiles : \E lead \in ScoredLeads :
          scored = [NoScore EXCEPT !.icp = icp, !.lead = lead]

\* the manager built with the criteria scores the candidate
CalculateIcpScore ==
    /\ ~scored.made
    /\ scored' = [scored EXCEPT !.made = TRUE,
                                !.score = calculate_icp_score_with(scored.icp, scored.lead)]
    /\ UNCHANGED <<now, normalized, reset, checked, process_vars, pipeline_vars, cache_vars, rotation_vars, endpoint_vars>>

NextScore == CalculateIcpScore

SpecScore == InitScore /\ [][NextScore]_vars

(***************************************************************************)
(* The normalizers on their own.  The inputs are the texts made of at most *)
(* MaxParts parts of a field's alphabet.                                   *)
(***************************************************************************)
Normalizers == {"_normalize_company_name", "_normalize_website", "_normalize_phone"}

normalize(normalizer, text) ==
    CASE normalizer = "_normalize_company_name" -> normalize_company_name(text)
      [] normalizer = "_normalize_website" -> normalize_website(text)
      [] normalizer = "_normalize_phone" -> normalize_phone(text)

\* "".join(parts)
RECURSIVE join(_)
join(parts) == IF parts = << >> THEN << >> ELSE Head(parts) \o join(Tail(parts))

NameParts == {<<"A","c","m","e">>, <<" ">>, <<".">>, <<" ","I">>, <<" ","C","o">>, <<"n","c">>, <<" ","I","n","c">>, <<" ","L","L","C">>}

WebsiteParts == {<<"h","t","t","p","s",":","/","/">>, <<"h","t","t","p",":","/","/">>, <<"W","W","W",".">>, <<"a","c","m","e",".","c","o","m">>, <<"/">>, <<" ">>}

PhoneParts == {<<"+","1"," ">>, <<"(","8","0","8",")"," ">>, <<"5","5","5","-","0","1","0","0">>, <<"8","0","8">>, <<"5","5","5","0","1","0","0">>, <<"x">>}

parts_of(normalizer) ==
    CASE normalizer = "_normalize_company_name" -> NameParts
      [] normalizer = "_normalize_website" -> WebsiteParts
      [] normalizer = "_normalize_phone" -> PhoneParts

Texts(normalizer) == {join(parts) : parts \in SeqsUpTo(parts_of(normalizer), MaxParts)}

InitNormalize ==
    /\ now = 0
    /\ daily_limit = MaxDailyLimit
    /\ default_ttl = MaxTtlHours
    /\ PipelineInit
    /\ CacheInit
    /\ RotationInit
    /\ EndpointInit
    /\ ProcessInit
    /\ scored = NoScore
    /\ reset = NoReset
    /\ checked = NoCheck
    /\ \E normalizer \in Normalizers : \E text \in Texts(normalizer) :
          normalized = [NoNormalize EXCEPT !.normalizer = normalizer, !.input = text]

\* the normalizer applied to the text, and applied again to its result
Normalize ==
    /\ ~normalized.made
    /\ normalized' = [normalized EXCEPT
                        !.made = TRUE,
                        !.once = normalize(normalized.normalizer, normalized.input),
                        !.twice = normalize(normalized.normalizer,
                                            normalize(normalized.normalizer,
                                                      normalized.input))]
    /\ UNCHANGED <<now, scored, reset, checked, process_vars, pipeline_vars, cache_vars, rotation_vars, endpoint_vars>>

NextNormalize == Normalize

SpecNormalize == InitNormalize /\ [][NextNormalize]_vars

(***************************************************************************)
(* The checks of the sources: mark_source_checked and should_check_source  *)
(* called in any order while the hours pass.                               *)
(***************************************************************************)
MaxCheckCalls == 3

MaxCheckHour == 3

CheckedSources == {"google_maps", "yelp"}

CheckedQueries == {"Honolulu hotel", "Maui resort"}

HourThresholds == {1, 2}

InitChecked ==
    /\ now = 0
    /\ daily_limit = MaxDailyLimit
    /\ default_ttl = MaxTtlHours
    /\ PipelineInit
    /\ CacheInit
    /\ RotationInit
    /\ EndpointInit
    /\ ProcessInit
    /\ UnitInit

MarkSourceChecked(source, query) ==
    /\ calls < MaxCheckCalls
    /\ calls' = calls + 1
    /\ ledger' = mark_source_checked(ledger, source, query, now)
    /\ state_file' = save_state(ledger')
    /\ checked' = [NoCheck EXCEPT !.marks = checked.marks \cup {<<source, query, now>>}]
    /\ UNCHANGED <<now, daily_limit, call, cache_vars, rotation, rotation_file, used, runs,
                   asked, emitted, emissions, selections, recorded, endpoint_vars, scored, normalized, reset,
                   process_vars>>

ShouldCheckSource(source, query, hours_threshold) ==
    LET r == should_check_source(ledger, source, query, hours_threshold, now)
    IN  /\ ~checked.made
        /\ ledger' = r.state
        /\ state_file' = IF r.state # ledger THEN save_state(r.state) ELSE state_file
        /\ checked' = [made |-> TRUE, source |-> source, query |-> query,
                       hours_threshold |-> hours_threshold, answer |-> r.answer,
                       before |-> ledger, file |-> state_file, at |-> now,
                       marks |-> checked.marks]
        /\ UNCHANGED <<now, daily_limit, call, cache_vars, rotation_vars, endpoint_vars,
                       scored, normalized, reset, process_vars>>

\* an hour passes
CheckedHour ==
    /\ now < MaxCheckHour
    /\ now' = now + 1
    /\ checked' = [NoCheck EXCEPT !.marks = checked.marks]
    /\ UNCHANGED <<pipeline_vars, cache_vars, rotation_vars, endpoint_vars,
                   scored, normalized, reset, process_vars>>

NextChecked ==
    \/ \E source \in CheckedSources, query \in CheckedQueries : MarkSourceChecked(source, query)
    \/ \E source \in CheckedSources, query \in CheckedQueries, hours_threshold \in HourThresholds :
          ShouldCheckSource(source, query, hours_threshold)
    \/ CheckedHour

SpecChecked == InitChecked /\ [][NextChecked]_vars

(***************************************************************************)
(* Properties of the prioritization pipeline under direct calls (Spec)     *)
(***************************************************************************)
\* positions of the latest batch with the given outcome
Positions(outcome) == {i \in 1..Len(call.outcomes) : call.outcomes[i] = outcome}

\* the outcomes of a candidate that is skipped as a duplicate
DuplicateOutcomes ==
    {"existing_name", "existing_website", "existing_phone", "seen", "filtered"}

\* the candidates of the latest batch that passed every duplicate check
PassedDuplicateChecks == Positions("below_threshold") \cup Positions("kept")

\* the keys of the ledger, seen or filtered
Known(state) == state.seen_companies \cup state.filtered_companies

\* _normalize_company_name of each ledger key the pool can produce
normalized_key ==
    [k \in {key_of[id] : id \in LeadIds} |-> normalize_company_name(k)]

\* admissions still available on the day of the latest call, before it ran
RemainingBefore == get_remaining_daily_capacity(call.before, call.day, daily_limit)

\* C3: once a company is marked filtered, no later filter_and_prioritize_leads
\* call keeps (marks seen, returns) a candidate with the same normalized
\* company name (lowercased, trimmed, legal suffix stripped).
C3_FilteredNeverPromoted ==
    call.made =>
        \A i \in Positions("kept") :
            \A k \in call.before.filtered_companies :
                normalized_key[k] # name_of[call.batch[i]]

\* C4: the seen set and the filtered set of the ledger are disjoint.
C4_SeenFilteredDisjoint ==
    ledger.seen_companies \cap ledger.filtered_companies = {}

\* C4 witness: a company filtered in an earlier call came back with a score at
\* or above the threshold and was skipped as filtered, while other companies
\* are seen.
C4_Witness ==
    /\ call.made
    /\ ledger.seen_companies # {}
    /\ \E i \in Positions("filtered") : icp_score[call.batch[i]] >= min_score_threshold

\* C5: with the daily quota exhausted, filter_and_prioritize_leads returns an
\* empty list, scores no candidate and leaves the filtered set unchanged.
C5_ExhaustedQuotaLeavesLedger ==
    (call.made /\ RemainingBefore = 0) =>
        /\ call.leads = << >>
        /\ PassedDuplicateChecks = {}
        /\ ledger.filtered_companies = call.before.filtered_companies

\* C6: no returned candidate has the normalized name, or (where both carry
\* one) the normalized website or phone, of a record of existing_leads.
C6_NoExistingRecordInOutput ==
    call.made =>
        \A i \in 1..Len(call.leads) : \A e \in call.existing :
            LET c == call.leads[i]
            IN  /\ name_of[c] # name_of[e]
                /\ (truthy(Pool[c].website) /\ truthy(Pool[e].website))
                        => website_of[c] # website_of[e]
                /\ (truthy(Pool[c].phone) /\ truthy(Pool[e].phone))
                        => phone_of[c] # phone_of[e]

\* C6 witness: a batch in which one candidate is dropped for carrying the
\* website of a stored record under another name, and another is returned.
C6_Witness ==
    /\ call.made
    /\ call.leads # << >>
    /\ \E i \in Positions("existing_website") : \E e \in call.existing :
          /\ website_of[call.batch[i]] = website_of[e]
          /\ name_of[call.batch[i]] # name_of[e]

\* C7: the number of keys a call adds to seen \cup filtered equals the number
\* of candidates of the batch that passed every duplicate check.
C7_AddedEqualsPassed ==
    call.made =>
        Cardinality(Known(ledger) \ Known(call.before)) = Cardinality(PassedDuplicateChecks)

\* C7 witness: a call on a ledger that already knows companies, in which one
\* candidate is skipped as known and another passes and is recorded.
C7_Witness ==
    /\ call.made
    /\ Known(call.before) # {}
    /\ Positions("seen") \cup Positions("filtered") # {}
    /\ PassedDuplicateChecks # {}

\* the candidates of a batch that carry a company name
named(batch) == SelectSeq(batch, LAMBDA id : truthy(Pool[id].company_name))

\* C15: a candidate without a company name is never returned, and the call
\* returns the leads and leaves the ledger it would have with that candidate
\* taken out of the batch.
C15_NamelessCandidateDropped ==
    call.made =>
        LET without == filter_and_prioritize_leads(call.before, named(call.batch),
                                                   call.existing, call.day, daily_limit)
        IN  /\ \A i \in 1..Len(call.leads) : truthy(Pool[call.leads[i]].company_name)
            /\ call.leads = without.leads
            /\ ledger = without.state

\* the number of kept candidates that come before the i-th kept one when
\* ordered by score, highest first, equal scores in input order
ahead_of(i) ==
    Cardinality({j \in 1..Len(call.kept) :
                    \/ icp_score[call.kept[j]] > icp_score[call.kept[i]]
                    \/ /\ icp_score[call.kept[j]] = icp_score[call.kept[i]]
                       /\ j < i})

\* daily_limit minus the count admitted on the day of the latest call, at least 0
quota_left == Max(0, daily_limit - get_daily_stats(call.before, call.day).leads_added)

\* C19: the returned list is the first k of the kept candidates ordered by
\* score, highest first, equal scores in input order, with
\* k = max(0, daily_limit - today's admitted count); its length is
\* min(k, number of kept candidates).
C19_FirstKByScore ==
    call.made =>
        /\ Len(call.leads) = Min(quota_left, Len(call.kept))
        /\ \A i \in 1..Len(call.kept) :
              ahead_of(i) < Len(call.leads) => call.leads[ahead_of(i) + 1] = call.kept[i]

\* C19 witness: two different candidates of equal score are both returned.
C19_Witness ==
    /\ call.made
    /\ Len(call.leads) = 2
    /\ icp_score[call.leads[1]] = icp_score[call.leads[2]]
    /\ call.leads[1] # call.leads[2]

\* C20: no two returned candidates share a normalized company name, or
\* (where both carry one) a normalized website or a normalized phone.
C20_OutputPairwiseDistinct ==
    call.made =>
        \A i, j \in 1..Len(call.leads) :
            i < j =>
                LET a == call.leads[i]
                    b == call.leads[j]
                IN  /\ name_of[a] # name_of[b]
                    /\ (truthy(Pool[a].website) /\ truthy(Pool[b].website))
                            => website_of[a] # website_of[b]
                    /\ (truthy(Pool[a].phone) /\ truthy(Pool[b].phone))
                            => phone_of[a] # phone_of[b]

\* C20 witness: with no stored records, the second candidate of the batch is
\* skipped for the website of the first, which is returned.
C20_Witness ==
    /\ call.made
    /\ call.existing = {}
    /\ Len(call.batch) = 2
    /\ call.outcomes = <<"kept", "existing_website">>
    /\ website_of[call.batch[1]] = website_of[call.batch[2]]
    /\ name_of[call.batch[1]] # name_of[call.batch[2]]
    /\ call.leads = <<call.batch[1]>>

\* the websites of the stored records and of the candidates before position
\* i of the latest batch whose outcome is not one of the given
websites_before(i, outcomes) ==
    {website_of[e] : e \in {x \in call.existing : truthy(Pool[x].website)}}
        \cup {website_of[call.batch[j]] :
                 j \in {h \in 1..(i - 1) : /\ truthy(Pool[call.batch[h]].website)
                                            /\ call.outcomes[h] \notin outcomes}}

\* the same for the phones
phones_before(i, outcomes) ==
    {phone_of[e] : e \in {x \in call.existing : truthy(Pool[x].phone)}}
        \cup {phone_of[call.batch[j]] :
                 j \in {h \in 1..(i - 1) : /\ truthy(Pool[call.batch[h]].phone)
                                            /\ call.outcomes[h] \notin outcomes}}

\* every outcome but "kept"
DroppedOutcomes == DuplicateOutcomes \cup {"below_threshold"}

\* C30 as stated: a candidate is skipped for its website or phone only when
\* a stored record, or an earlier candidate of the batch that was kept,
\* carries that website or phone.
C30_SkippedOnlyForKeptOrStored ==
    call.made =>
        /\ \A i \in Positions("existing_website") :
              website_of[call.batch[i]] \in websites_before(i, DroppedOutcomes)
        /\ \A i \in Positions("existing_phone") :
              phone_of[call.batch[i]] \in phones_before(i, DroppedOutcomes)

\* C30 amended: a candidate that passes the name check is skipped for its
\* website exactly when a stored record carries it or an earlier candidate of
\* the batch that passed the name check carries it, kept or not; one that
\* passes the website check too is skipped for its phone exactly when a
\* stored record carries it or an earlier candidate that passed the name,
\* website and phone checks carries it, kept or not.
C30_SkippedForAnyEarlierCandidate ==
    call.made =>
        \A i \in 1..Len(call.batch) :
            LET id == call.batch[i]
            IN  /\ call.outcomes[i] # "existing_name" =>
                      (call.outcomes[i] = "existing_website"
                          <=> /\ truthy(Pool[id].website)
                              /\ website_of[id] \in websites_before(i, {"existing_name"}))
                /\ call.outcomes[i] \notin {"existing_name", "existing_website"} =>
                      (call.outcomes[i] = "existing_phone"
                          <=> /\ truthy(Pool[id].phone)
                              /\ phone_of[id] \in
                                    phones_before(i, {"existing_name", "existing_website"}))

\* C30 witness: with no stored records, the first candidate of the batch is
\* dropped below the threshold and the second, under another name, is
\* skipped for the website of the first.
C30_Witness ==
    /\ call.made
    /\ call.existing = {}
    /\ call.outcomes = <<"below_threshold", "existing_website">>
    /\ website_of[call.batch[1]] = website_of[call.batch[2]]
    /\ name_of[call.batch[1]] # name_of[call.batch[2]]
    /\ call.leads = << >>

(***************************************************************************)
(* Properties of the state files (SpecDurable)                             *)
(***************************************************************************)
\* C14: when the ledger or rotation document is missing or corrupt at load
\* time, constructing the manager succeeds and yields a fresh empty state.
C14_MissingOrCorruptLoadsFresh ==
    (loaded.made /\ loaded.file.kind \in {"missing", "corrupt"}) =>
        /\ ~loaded.raised
        /\ loaded.manager \in up
        /\ loaded.manager = "DiscoveryStateManager" => loaded.state = fresh_ledger
        /\ loaded.manager = "QueryRotationManager" => loaded.state = fresh_rotation

\* the keys of the candidates a completed loop iteration gave this outcome
marked(outcome) ==
    {key_of[processed[i][1]] : i \in {j \in 1..Len(processed) : processed[j][2] = outcome}}

\* C16: while the ledger manager lives, the ledger document read back equals
\* the ledger in memory, and its seen and filtered marks are exactly those of
\* the candidates processed so far, aborts and reloads included.
C16_DocumentEqualsLedger ==
    "DiscoveryStateManager" \in up =>
        /\ state_file.kind # "corrupt"
        /\ load_state(state_file).state = ledger
        /\ ledger.seen_companies = marked("kept")
        /\ ledger.filtered_companies = marked("below_threshold")

\* C16 witness: the process was aborted inside the loop, after a candidate
\* was marked seen and another filtered, and the ledger was loaded again
\* from the document.
C16_Witness ==
    /\ loaded.made
    /\ loaded.manager = "DiscoveryStateManager"
    /\ loaded.file.kind = "document"
    /\ "DiscoveryStateManager" \in up
    /\ ~pass.active
    /\ pass.rest # << >>
    /\ ledger.seen_companies # {}
    /\ ledger.filtered_companies # {}

\* the loop has just finished an iteration that skipped its candidate
SkippedStep ==
    /\ pass.active
    /\ pass'.active
    /\ Len(processed') = Len(processed) + 1
    /\ processed'[Len(processed')][2] \in DuplicateOutcomes

\* C21: a loop iteration that skips its candidate as a duplicate leaves the
\* seen set, the filtered set and the day's admitted count of the ledger, and
\* the ledger document, as they were before that candidate.
C21_DuplicateLeavesLedger ==
    [][SkippedStep =>
          /\ ledger'.seen_companies = ledger.seen_companies
          /\ ledger'.filtered_companies = ledger.filtered_companies
          /\ get_daily_stats(ledger', Today).leads_added
                = get_daily_stats(ledger, Today).leads_added
          /\ state_file' = state_file]_vars

\* C21 witness: with leads already admitted today and companies seen and
\* filtered, the loop has just skipped a candidate whose name is in the
\* ledger, after skipping another for matching a stored record.
C21_Witness ==
    /\ pass.active
    /\ Len(processed) >= 2
    /\ processed[Len(processed)][2] \in {"seen", "filtered"}
    /\ \E i \in 1..Len(processed) :
          processed[i][2] \in {"existing_name", "existing_website", "existing_phone"}
    /\ Known(ledger) # {}
    /\ get_daily_stats(ledger, Today).leads_added > 0

(***************************************************************************)
(* Properties of the checks of the sources (SpecChecked)                   *)
(***************************************************************************)
\* the times of the mark_source_checked calls on the source, for any query
marked_at(source) == {m[3] : m \in {x \in checked.marks : x[1] = source}}

\* C25: should_check_source(source, query, h) answers true exactly when no
\* mark_source_checked recorded the (source, query) pair, or more than h
\* hours have passed since the latest mark_source_checked on the source for
\* any query; and it leaves the ledger and its document as they were.
C25_CheckWhenNewOrStale ==
    checked.made =>
        /\ checked.answer =
              (\/ ~\E m \in checked.marks : m[1] = checked.source /\ m[2] = checked.query
               \/ \A t \in marked_at(checked.source) : checked.at - t > checked.hours_threshold)
        /\ ledger = checked.before
        /\ state_file = checked.file

\* C25 witness: the pair was recorded more than h hours ago, the source was
\* marked again for another query within the last h hours, and the answer is
\* false.
C25_Witness ==
    /\ checked.made
    /\ ~checked.answer
    /\ \E m \in checked.marks :
          /\ m[1] = checked.source
          /\ m[2] = checked.query
          /\ checked.at - m[3] > checked.hours_threshold
    /\ \A m \in checked.marks :
          (m[1] = checked.source /\ m[2] = checked.query)
              => checked.at - m[3] > checked.hours_threshold
    /\ \E m \in checked.marks :
          /\ m[1] = checked.source
          /\ m[2] # checked.query
          /\ checked.at - m[3] <= checked.hours_threshold

C12_ScoreWithinBounds ==
    scored.made => (0 <= scored.score /\ scored.score <= 100)

\* C12 witness: a candidate whose additive score passes 100 is scored 100.
C12_Witness ==
    /\ scored.made
    /\ additive_score(scored.icp, scored.lead) > 100
    /\ scored.score = 100

(***************************************************************************)
(* Properties of the normalizers (SpecNormalize)                           *)
(***************************************************************************)
\* C13: each normalizer is idempotent: normalizing a normalized text gives
\* the same text.
C13_NormalizersIdempotent ==
    normalized.made => normalized.twice = normalized.once

(***************************************************************************)
(* Properties of the response cache (SpecCache)                            *)
(***************************************************************************)
\* what a get of a key must return at time t, given the latest set of the key
Readable(key, t, strict) ==
    IF key \notin DOMAIN stored THEN Absent
    ELSE IF (IF strict THEN t > stored[key].expires_at ELSE t >= stored[key].expires_at)
         THEN Absent
         ELSE stored[key].data

\* C8 as claimed: a get at a time >= the expiry of the stored entry returns
\* absent, the instant of expiry included; a get before it returns the payload.
C8_AbsentFromExpiry ==
    got.made => got.result = Readable(got.key, got.at, FALSE)

\* C8 amended: a get at a time > the expiry returns absent, whether or not
\* clear_expired ran; a get at a time <= the expiry, the instant of expiry
\* included, returns the stored payload.
C8_AbsentAfterExpiry ==
    got.made => got.result = Readable(got.key, got.at, TRUE)

\* C8 witness: a get after the expiry of an entry that clear_expired never
\* purged finds it absent, while the other key is still served from the cache.
C8_Witness ==
    /\ got.made
    /\ got.key \in DOMAIN stored
    /\ got.at > stored[got.key].expires_at
    /\ got.result = Absent
    /\ \E k \in DOMAIN cache : k # got.key

(***************************************************************************)
(* Properties of the source exhaustion (SpecSource)                        *)
(***************************************************************************)
\* C10: every stored exhaustion level is within [0, 100].
C10_ExhaustionBounded ==
    \A s \in DOMAIN rotation.source_exhaustion :
        /\ FracLeq(Zero, rotation.source_exhaustion[s])
        /\ FracLeq(rotation.source_exhaustion[s], Hundred)

\* C10 witness: a level capped at 100 after results with more duplicates than
\* results, later halved by should_use_source.
C10_Witness ==
    /\ used.made
    /\ used.source \in DOMAIN used.before.source_exhaustion
    /\ used.before.source_exhaustion[used.source] = Hundred
    /\ rotation.source_exhaustion[used.source] = Frac(50, 1)

\* the exhaustion of the source before its latest mark_source_results, 0 for
\* a source never recorded
previous_level(source) ==
    IF source \in DOMAIN recorded[source].before
    THEN recorded[source].before[source]
    ELSE Zero

\* 100 x duplicates / total_found of the source's latest mark_source_results,
\* 100 when nothing was found
reported_rate(source) ==
    IF recorded[source].total_found = 0
    THEN Hundred
    ELSE Frac(100 * recorded[source].duplicates, recorded[source].total_found)

\* min(100, 0.7 x previous + 0.3 x duplicate_rate) of the latest call
weighted_level(source) ==
    FracMin(Hundred,
            FracAdd(FracMul(Frac(7, 10), previous_level(source)),
                    FracMul(Frac(3, 10), reported_rate(source))))

CalledTwice ==
    /\ used.made
    /\ used.repeated

\* C28 as stated: the second of two consecutive should_use_source calls
\* for a source returns the answer of the first and leaves the stored
\* exhaustion the first left.
C28_SecondCallChangesNothing ==
    CalledTwice =>
        /\ used.answer = used.first_answer
        /\ exhaustion_of(rotation, used.source) = exhaustion_of(used.before, used.source)

\* C28 amended: within 24 hours of the source's last mark_source_results the
\* second call returns the answer of the first and leaves the stored
\* exhaustion as it was; more than 24 hours after it, the second call halves
\* the stored exhaustion again and answers by that halved level.
C28_SecondCallHalvesAgainAfterADay ==
    CalledTwice =>
        IF /\ used.source \in DOMAIN recorded
           /\ used.at - recorded[used.source].at > RecoveryHours
        THEN /\ exhaustion_of(rotation, used.source)
                   = FracMul(exhaustion_of(used.before, used.source), Frac(1, 2))
             /\ used.answer = FracLess(exhaustion_of(rotation, used.source), used.threshold)
        ELSE /\ exhaustion_of(rotation, used.source) = exhaustion_of(used.before, used.source)
             /\ used.answer = used.first_answer

\* C28 witness: more than 24 hours after results that left the source at 90,
\* the first call halves to 45 and refuses at threshold 30, the second halves
\* to 22.5 and accepts.
C28_Witness ==
    /\ CalledTwice
    /\ used.source \in DOMAIN recorded
    /\ used.at - recorded[used.source].at > RecoveryHours
    /\ recorded[used.source].level = Frac(90, 1)
    /\ ~used.first_answer
    /\ used.answer
    /\ exhaustion_of(rotation, used.source) = Frac(45, 2)

\* C11: should_use_source called more than 24 hours after the source's last
\* mark_source_results compares at most half of the level that call recorded;
\* called 24 hours or less after it, it compares the recorded level unchanged.
C11_RecoveryAfterADay ==
    (used.made /\ used.source \in DOMAIN recorded) =>
        LET last == recorded[used.source]
        IN  IF used.at - last.at > RecoveryHours
            THEN FracLeq(used.compared, FracMul(last.level, Frac(1, 2)))
            ELSE used.compared = last.level

\* C11 witness: a second should_use_source call more than 24 hours after the
\* last mark_source_results, comparing a quarter of the recorded level.
C11_Witness ==
    /\ used.made
    /\ used.source \in DOMAIN recorded
    /\ used.at - recorded[used.source].at > RecoveryHours
    /\ FracLess(Zero, recorded[used.source].level)
    /\ used.compared = FracMul(recorded[used.source].level, Frac(1, 4))

\* the cursor the latest call found stored for the industry, 0 when none
cursor_before(ind) ==
    IF ind \in DOMAIN asked.cursors THEN asked.cursors[ind] ELSE 0

\* C24: for each industry the rotation step of a call reaches, the keyword
\* used is the one at the industry's stored cursor and the cursor is then
\* one further modulo the number of keywords, whether or not its queries were
\* emitted; every stored cursor is in [0, k); and any k consecutive uses of
\* an industry with k keywords use each keyword once.
C24_CursorRoundRobin ==
    /\ asked.made =>
          \A i \in 1..Len(asked.selected) :
              LET ind == asked.selected[i].industry
                  keywords == keywords_of(ind)
              IN  /\ asked.selected[i].keyword = keywords[cursor_before(ind) + 1]
                  /\ rotation.industry_rotation[ind]
                        = (cursor_before(ind) + 1) % Len(keywords)
    /\ \A ind \in DOMAIN rotation.industry_rotation :
          rotation.industry_rotation[ind] \in 0..(Len(keywords_of(ind)) - 1)
    /\ \A ind \in DOMAIN selections :
          LET keywords == keywords_of(ind)
              k == Len(keywords)
          IN  \A first \in 1..(Len(selections[ind]) - k + 1) :
                  /\ {selections[ind][j] : j \in first..(first + k - 1)}
                        = {keywords[j] : j \in 1..k}
                  /\ \A j \in first..(first + k - 1) :
                        \A h \in first..(first + k - 1) :
                            selections[ind][j] = selections[ind][h] => j = h

\* C24 witness: a call whose rotation step reached an industry and emitted
\* nothing, its query being recent, after the cursor of an industry with
\* several keywords has gone round.
C24_Witness ==
    /\ asked.made
    /\ asked.selected # << >>
    /\ asked.rotated = 0
    /\ \E ind \in DOMAIN selections :
          /\ Len(keywords_of(ind)) > 1
          /\ Len(selections[ind]) > Len(keywords_of(ind))

\* C23: the rotation history holds at most 100 entries, and they are the
\* most recent emissions, each once with the time of its call, in emission
\* order.
C23_HistoryIsLatestEmissions ==
    LET history == rotation.queries_used
        dropped == Len(emissions) - Len(history)
    IN  /\ Len(history) <= 100
        /\ Len(history) = Min(Len(emissions), 100)
        /\ \A i \in 1..Len(history) : history[i] = emissions[dropped + i]

\* C23 witness: more than 100 queries were emitted, on the first day and
\* days later, and the history holds entries of both.
C23_Witness ==
    /\ asked.made
    /\ asked.queries # << >>
    /\ Len(emissions) > 100
    /\ \E i, j \in 1..Len(rotation.queries_used) :
          rotation.queries_used[i].used_at < rotation.queries_used[j].used_at

\* C9 (as stated): a query returned by get_next_queries was not returned
\* by any call less than 7 days earlier, whatever was returned in between
C9_NeverAgainWithinSevenDays ==
    asked.made =>
        \A i \in 1..Len(asked.queries) : \A e \in asked.earlier :
            e[1] = lower(asked.queries[i]) => asked.at - e[2] >= RecentDays * HoursPerDay

\* C9 (amended): a query returned by get_next_queries has no record less
\* than 7 days old among the entries the history held when the call was
\* made (the 100 most recent emissions), whether the rotation step or the
\* fallback step produced it
C9_NotAgainWhileInHistory ==
    asked.made =>
        \A i \in 1..Len(asked.queries) : \A j \in 1..Len(asked.history) :
            lower(asked.history[j].query) = lower(asked.queries[i])
                => asked.at - asked.history[j].used_at >= RecentDays * HoursPerDay

\* a run asked for hotels in Honolulu while the history held a record of
\* "Honolulu hotel" less than 7 days old, and returned other queries,
\* among them one of the fallback step
C9_Witness ==
    /\ asked.made
    /\ asked.industry = <<"H","o","t","e","l">>
    /\ asked.location = <<"H","o","n","o","l","u","l","u">>
    /\ \E j \in 1..Len(asked.history) :
          /\ lower(asked.history[j].query) = <<"h","o","n","o","l","u","l","u"," ","h","o","t","e","l">>
          /\ asked.at - asked.history[j].used_at < RecentDays * HoursPerDay
    /\ Len(asked.queries) > asked.rotated

(***************************************************************************)
(* Properties of the discovery endpoint (SpecSequential, SpecOverlap)      *)
(***************************************************************************)
\* C1: with requests served one after the other, each persisting the list
\* the pipeline returned and reporting its length to mark_leads_added, the
\* count of leads added recorded for a date never exceeds daily_limit.
C1_RecordedWithinDailyLimit ==
    \A date \in DOMAIN ledger.daily_stats :
        ledger.daily_stats[date].leads_added <= daily_limit

\* two requests were served one after the other on the same day: the
\* first left part of the quota, the second had more qualifying candidates
\* than what was left and was cut to it, and the quota is used up
C1_Witness ==
    \E first, second \in RequestIds :
        /\ first # second
        /\ request[first].pc = "done" /\ request[second].pc = "done"
        /\ request[first].counted_on = request[second].counted_on
        /\ request[first].remaining_capacity = daily_limit
        /\ request[first].saved_leads # << >>
        /\ request[second].remaining_capacity = daily_limit - Len(request[first].saved_leads)
        /\ request[second].prioritized > request[second].remaining_capacity
        /\ Len(request[second].saved_leads) = request[second].remaining_capacity
        /\ ledger.daily_stats[request[first].counted_on].leads_added = daily_limit

\* C18: a request that starts with no daily capacity left ends refused, with
\* no leads and zero counts, and changes neither the ledger nor the rotation
\* state, in memory or on file, nor the stored leads.
C18_RefusedWithoutEffect ==
    [][\A r \in RequestIds :
          (/\ request[r].pc = "idle"
           /\ request'[r].pc # "idle"
           /\ Max(0, daily_limit - get_daily_stats(ledger, Today).leads_added) = 0)
          => /\ request'[r].pc = "refused"
             /\ request'[r].saved_leads = << >>
             /\ request'[r].total_discovered = 0
             /\ request'[r].duplicates_skipped = 0
             /\ ledger' = ledger
             /\ state_file' = state_file
             /\ rotation' = rotation
             /\ rotation_file' = rotation_file
             /\ db_leads' = db_leads]_vars

\* C18 witness: a request was refused on a day on which an earlier request
\* had used up a daily limit above 0.
C18_Witness ==
    /\ daily_limit > 0
    /\ \E refused, earlier \in RequestIds :
          /\ request[refused].pc = "refused"
          /\ request[earlier].pc = "done"
          /\ request[earlier].counted_on = Today
          /\ Len(request[earlier].saved_leads) = daily_limit

\* the leads the requests counted on a date
counted(date) ==
    {<<r, i>> \in RequestIds \X (1..MaxBatch) :
        /\ request[r].pc = "done"
        /\ request[r].counted_on = date
        /\ i <= Len(request[r].saved_leads)}

C26_CutOffNeverReturned ==
    /\ \A id \in cut_off : key_of[id] \in ledger.seen_companies
    /\ \A r \in RequestIds :
          request[r].pc = "done" =>
              /\ \A i \in 1..Len(request[r].discovered_leads) :
                    request[r].discovered_leads[i] \in request[r].cut_before =>
                        request[r].outcomes[i] \in
                            {"existing_name", "existing_website", "existing_phone", "seen"}
              /\ \A i \in 1..Len(request[r].saved_leads) :
                    request[r].saved_leads[i] \notin request[r].cut_before

\* C26 witness: a request served with quota left, a day after the quota cut
\* a candidate from an earlier result, found that candidate again, skipped
\* it as seen, and admitted nothing.
C26_Witness ==
    \E r \in RequestIds :
        /\ request[r].pc = "done"
        /\ request[r].remaining_capacity > 0
        /\ request[r].counted_on > 0
        /\ request[r].saved_leads = << >>
        /\ \E i \in 1..Len(request[r].discovered_leads) :
              /\ request[r].discovered_leads[i] \in request[r].cut_before
              /\ request[r].outcomes[i] = "seen"
              /\ request[r].discovered_leads[i] \notin db_leads

\* the number of candidates of the request's batch with one of the outcomes
outcome_count(r, outcomes) ==
    Cardinality({i \in 1..Len(request[r].outcomes) : request[r].outcomes[i] \in outcomes})

\* C27: in the populated response, duplicates_skipped is the number of
\* candidates of the batch the pipeline skipped as duplicates, icp_filtered
\* is the number it marked filtered in that run, neither is negative, and
\* the duplicates passed to mark_source_results is that duplicate count.
C27_ResponseCountsMatchPipeline ==
    \A r \in RequestIds :
        request[r].pc = "done" =>
            /\ request[r].duplicates_skipped = outcome_count(r, DuplicateOutcomes)
            /\ request[r].icp_filtered = outcome_count(r, {"below_threshold"})
            /\ request[r].duplicates_skipped >= 0
            /\ request[r].icp_filtered >= 0
            /\ request[r].reported_duplicates = outcome_count(r, DuplicateOutcomes)

\* the queries "<location> <keyword>" of the first n industries and the
\* first m locations of the vocabulary
vocabulary_queries(n, m) ==
    UNION {{locations[l] \o <<" ">> \o keywords_of(industries_in_order[i])[k] :
                k \in 1..Len(keywords_of(industries_in_order[i])), l \in 1..m} : i \in 1..n}

====
